---- MODULE Spec2Model ----
(***************************************************************************)
(* Model of the Hyperliquid long/short trading bot: the cycle              *)
(* orchestrator (trader.py, strategy.py) and the leverage-compliance       *)
(* controller (risk_manager.py) running against a venue whose answers are  *)
(* nondeterministic.                                                       *)
(*                                                                         *)
(* Number representation.  Leverages are held in thousandths (3.0 is       *)
(* 3000), position sizes in hundredths of a coin (6.00 BTC is 600), USD    *)
(* values that come out of divisions as exact fractions <<num, den>>.      *)
(* Floating-point rounding error is not modelled.                          *)
(***************************************************************************)
EXTENDS Integers, Sequences, FiniteSets, TLC

VARIABLES
    config,         \* target parameters: leverage_btc, leverage_shorts, shorts
    nav,            \* venue: marginSummary.accountValue (USD)
    vpos,           \* venue: signed position size per symbol (hundredths)
    vlev,           \* venue: leverage setting per symbol (thousandths)
    running,        \* HyperliquidTrader.running
    pc,             \* position of the single thread of control
    cycle_count,    \* run_main_loop: cycle_count
    compliance,     \* run_strategy_cycle: compliance (symbol -> bool)
    lev_read,       \* leverages the gateway returned to that check
    current_state,  \* force_leverage_compliance: current_state (snapshot)
    queue,          \* items the running step still has to process
    success,        \* the running step's success flag
    plan,           \* open requests computed by _restore_positions
    branch,         \* which branch _restore_positions took
    open_at_close,  \* symbols open on the venue when CLOSE_ALL started
    close_result,   \* value returned by _close_all_positions
    lev_result,     \* value returned by _set_all_leverages
    calls,          \* gateway calls of the current protocol run, in order
    fresult,        \* outcome of force_leverage_compliance in this cycle
    cycle_ok,       \* value returned by run_strategy_cycle in this cycle
    failed_runs,    \* number of protocol runs that ended FAILED so far
    rerun,          \* a protocol run was started after an earlier FAILED run
    portfolio,      \* run_strategy_cycle: portfolio
    decision,       \* run_strategy_cycle: decision
    exec_prices,    \* execute_rebalance: prices
    orders,         \* orders execute_rebalance handed to place_market_order
    exec_result,    \* value returned by execute_rebalance
    slept,          \* run_main_loop: seconds slept in the inter-cycle sleep
    saves,          \* number of save_state calls so far
    cleanups,       \* number of cleanup runs so far
    sizing,         \* a size put through validate_order_size, and the results
    component,      \* state of a component that is checked on its own
    faults          \* gateway and configuration failures injected so far

vars == <<config, nav, vpos, vlev, running, pc, cycle_count, compliance,
          lev_read, current_state, queue, success, plan, branch,
          open_at_close, close_result, lev_result, calls, fresult, cycle_ok,
          failed_runs, rerun, portfolio, decision, exec_prices, orders,
          exec_result, slept, saves, cleanups, sizing, component, faults>>

(***************************************************************************)
(* Bounds and inputs                                                       *)
(***************************************************************************)
MaxCycles == 2

\* failures the environment may inject in one behaviour
MaxFaults == 2

\* seconds of the inter-cycle sleep (sleep_duration)
SleepDuration == 2

Symbols == {"BTC", "ZK", "STRK", "ETH"}

\* order in which the venue lists assetPositions
VenueOrder == <<"BTC", "ETH", "ZK", "STRK">>

\* mid prices served by all_mids (USD per coin)
Price(s) == CASE s = "BTC" -> 100 [] s = "ZK" -> 2 [] s = "STRK" -> 5 [] OTHER -> 10

\* asset metadata handed to the order executor and the risk manager, as
\* validate_order_size reads it: szDecimals from the venue, szStep 0.000001
\* and, with no minSz key, minSz = 10^-szDecimals (both in millionths of a
\* coin).  The venue's universe has no entry for ETH.
AssetMeta ==
    [BTC  |-> [szDecimals |-> 2, szStep |-> 1, minSz |-> 10000],
     ZK   |-> [szDecimals |-> 0, szStep |-> 1, minSz |-> 1000000],
     STRK |-> [szDecimals |-> 1, szStep |-> 1, minSz |-> 100000]]

\* configurations ConfigValidator accepts.  ratio_tgt is in hundredths (2.0 is
\* 200), reserve_usd_percent and rebalance_threshold are in percent
Configs ==
    { [leverage_btc |-> 3, leverage_shorts |-> 3, shorts |-> <<"ZK", "STRK">>,
       ratio_tgt |-> 200, reserve_usd_percent |-> 5, rebalance_threshold |-> 10],
      [leverage_btc |-> 1, leverage_shorts |-> 3, shorts |-> <<"ZK", "STRK">>,
       ratio_tgt |-> 100, reserve_usd_percent |-> 5, rebalance_threshold |-> 10],
      [leverage_btc |-> 3, leverage_shorts |-> 2, shorts |-> <<"ETH">>,
       ratio_tgt |-> 200, reserve_usd_percent |-> 5, rebalance_threshold |-> 10] }

Flat == [s \in Symbols |-> 0]

InitialPositions ==
    { Flat,
      [Flat EXCEPT !["BTC"] = 600, !["ZK"] = -7500, !["STRK"] = -3000],
      [Flat EXCEPT !["ZK"] = -15000],
      [Flat EXCEPT !["BTC"] = 600, !["ETH"] = -1000],
      [Flat EXCEPT !["BTC"] = 600, !["ZK"] = -7500, !["ETH"] = -1000],
      [Flat EXCEPT !["BTC"] = 755, !["ZK"] = -7500, !["STRK"] = -3000],
      [Flat EXCEPT !["BTC"] = 600, !["ZK"] = -14000, !["STRK"] = -2000] }

InitialLeverages ==
    { [s \in Symbols |-> 3000],
      [s \in Symbols |-> IF s = "BTC" THEN 3000 ELSE 2000],
      [s \in Symbols |-> IF s = "BTC" THEN 3005 ELSE 3020] }

InitialNavs == {1200, 7}

\* an account below this value holds no position in the initial states
MinAccountForPositions == 100 * 10

\* accounts the rebalance stage is exercised on start with the leverages the
\* first configuration asks for
RebalancePositions ==
    { [Flat EXCEPT !["BTC"] = 600, !["ZK"] = -7500, !["ETH"] = -1000],
      [Flat EXCEPT !["BTC"] = 755, !["ZK"] = -7500, !["STRK"] = -3000],
      [Flat EXCEPT !["BTC"] = 600, !["ZK"] = -14000, !["STRK"] = -2000] }

\* leverage settings next to the required ones are tried on the flat
\* account and on the standard portfolio
NearbyLeverages == { [s \in Symbols |-> IF s = "BTC" THEN 3005 ELSE 3020] }

StandardPositions ==
    { Flat, [Flat EXCEPT !["BTC"] = 600, !["ZK"] = -7500, !["STRK"] = -3000] }

(***************************************************************************)
(* Arithmetic helpers                                                      *)
(***************************************************************************)
Abs(x) == IF x < 0 THEN -x ELSE x

Range(seq) == {seq[i] : i \in 1..Len(seq)}

Get(f, k, default) == IF k \in DOMAIN f THEN f[k] ELSE default

\* The arithmetic operators bind their arguments with CHOOSE so that an
\* argument is evaluated once, also where the operator is evaluated inside
\* ENABLED.
RECURSIVE Gcd(_, _)
Gcd(a, b) ==
    CHOOSE g \in {IF y = 0 THEN x ELSE Gcd(y, x % y) : x \in {a}, y \in {b}} : TRUE

\* a fraction <<n, d>> in lowest terms (d > 0, n >= 0)
Reduce(n, d) == LET g == Gcd(n, d) IN IF g = 0 THEN <<0, 1>> ELSE <<n \div g, d \div g>>

\* r * a / b
Scale(r, a, b) == Reduce(r[1] * a, r[2] * b)

\* r > k
Exceeds(r, k) == r[1] > k * r[2]

\* Python's round() of n/d to an integer: ties go to the even neighbour
RoundHalfEven(n, d) ==
    CHOOSE v \in
        { LET q == x \div y
              r == x % y
          IN  IF 2 * r < y THEN q
              ELSE IF 2 * r > y THEN q + 1
              ELSE IF q % 2 = 0 THEN q ELSE q + 1 :
          x \in {n}, y \in {d} } : TRUE

RECURSIVE Pow10(_)
Pow10(k) == IF k = 0 THEN 1 ELSE 10 * Pow10(k - 1)

\* round(n / d * 10^6) by long division, three digits at a time
RoundMillionths(n, d) ==
    CHOOSE v \in
        { LET q  == x \div y
              r0 == x % y
              t1 == (r0 * 1000) \div y
              r1 == (r0 * 1000) % y
              t2 == (r1 * 1000) \div y
              r2 == (r1 * 1000) % y
              fl == (q * 1000 + t1) * 1000 + t2
          IN  IF 2 * r2 < y THEN fl
              ELSE IF 2 * r2 > y THEN fl + 1
              ELSE IF fl % 2 = 0 THEN fl ELSE fl + 1 :
          x \in {n}, y \in {d} } : TRUE

\* signed fractions <<n, d>> with d > 0, in lowest terms
Frac(n, d) ==
    CHOOSE f \in
        { IF g = 0 THEN <<0, 1>> ELSE <<m \div g, Abs(y) \div g>> :
            <<m, y, g>> \in
                { <<IF y < 0 THEN -x ELSE x, y,
                    Gcd(Abs(IF y < 0 THEN -x ELSE x), Abs(y))>> :
                  x \in {n}, y \in {d} } } : TRUE

FAdd(a, b) ==
    CHOOSE f \in {Frac(x[1] * y[2] + y[1] * x[2], x[2] * y[2]) :
                     x \in {a}, y \in {b}} : TRUE

FSub(a, b) ==
    CHOOSE f \in {Frac(x[1] * y[2] - y[1] * x[2], x[2] * y[2]) :
                     x \in {a}, y \in {b}} : TRUE

FAbs(a) == <<Abs(a[1]), a[2]>>

\* a > b
FGt(a, b) == a[1] * b[2] > b[1] * a[2]

(***************************************************************************)
(* Program constants                                                       *)
(***************************************************************************)
\* current_leverages.get(symbol, 1.0): leverage assumed for an unreported symbol
DefaultLeverage == 1000

\* abs(leverage - required) < 0.01, in thousandths
ComplianceTolerance == 10

\* _restore_positions: reserve_percent = 0.05, in percent
RestoreReservePercent == 5

\* _restore_positions / _create_initial_positions: "Minimum $5"
MinOpenUsd == 5

\* _restore_positions: shorts_symbols = ['ZK', 'STRK']
StandardShorts == <<"ZK", "STRK">>

\* get_portfolio_state: position_ratio when shorts_margin is not positive
SentinelRatio == 999

\* execute_rebalance: abs(btc_diff_usd) > 5.0
MinCoreDiffUsd == 5

\* execute_rebalance: abs(shorts_diff_usd) > 5.0
MinShortsDiffUsd == 5

\* execute_rebalance: abs(position_diff_usd) > 2.0
MinSymbolDiffUsd == 2

(***************************************************************************)
(* Venue reads                                                             *)
(***************************************************************************)
\* symbols listed in user_state['assetPositions'], in venue order
OpenSymbols == {s \in Symbols : vpos[s] # 0}

AssetPositions == SelectSeq(VenueOrder, LAMBDA s : vpos[s] # 0)

AnyPositionOpen == OpenSymbols # {}

\* get_current_leverages: coin -> leverage for every listed position,
\* the empty dict when the read raises
GetCurrentLeverages(readOk) ==
    IF readOk THEN [s \in OpenSymbols |-> vlev[s]] ELSE <<>>

\* get_prices on a freshly built provider (empty cache): the mids, or 0.0
\* for every symbol when all_mids raises
GetPrices(symbols, midsOk) == [s \in symbols |-> IF midsOk THEN Price(s) ELSE 0]

(***************************************************************************)
(* check_leverage_compliance                                               *)
(***************************************************************************)
Tracked(shorts) == {"BTC"} \cup Range(shorts)

Expected(s, required_btc, required_shorts, shorts) ==
    IF s \in Range(shorts) THEN required_shorts * 1000 ELSE required_btc * 1000

CheckLeverageCompliance(current_leverages, required_btc, required_shorts, shorts) ==
    [s \in Tracked(shorts) |->
        Abs(Get(current_leverages, s, DefaultLeverage)
            - Expected(s, required_btc, required_shorts, shorts))
            < ComplianceTolerance]

NonCompliant(c) == {s \in DOMAIN c : ~c[s]}

(***************************************************************************)
(* _save_portfolio_state                                                   *)
(***************************************************************************)
\* value of a position in cents: abs(size) * price with size in hundredths
PositionValue(s, prices) == Abs(vpos[s]) * Get(prices, s, 0)

EmptyState ==
    [empty |-> TRUE, nav |-> 0, positions |-> <<>>,
     total_btc_value |-> 0, total_shorts_value |-> 0]

RECURSIVE SumValues(_, _)
SumValues(S, prices) ==
    IF S = {} THEN 0
    ELSE LET s == CHOOSE x \in S : TRUE
         IN  PositionValue(s, prices) + SumValues(S \ {s}, prices)

SavePortfolioState(readOk, providerOk, midsOk, shorts) ==
    IF ~readOk \/ ~providerOk THEN EmptyState
    ELSE LET prices == GetPrices(Tracked(shorts), midsOk)
         IN  [empty |-> FALSE,
              nav |-> nav,
              positions |-> AssetPositions,
              total_btc_value |-> SumValues(OpenSymbols \cap {"BTC"}, prices),
              total_shorts_value |->
                  SumValues((OpenSymbols \ {"BTC"}) \cap Range(shorts), prices)]

(***************************************************************************)
(* _set_all_leverages: the updates it issues, in order                     *)
(***************************************************************************)
SetAllLeveragesCoreOnly(required_btc, required_shorts, shorts) ==
    <<[sym |-> "BTC", lev |-> required_btc]>>
    \o [i \in 1..Len(shorts) |-> [sym |-> shorts[i], lev |-> required_btc]]

SetAllLeverages(required_btc, required_shorts, shorts) ==
    <<[sym |-> "BTC", lev |-> required_btc]>>
    \o [i \in 1..Len(shorts) |-> [sym |-> shorts[i], lev |-> required_shorts]]

(***************************************************************************)
(* _create_initial_positions and _restore_positions: the open requests     *)
(* they hand to _open_position, in order.  value is the USD notional as a  *)
(* fraction.                                                               *)
(***************************************************************************)
OpenRequest(sym, value, is_buy) == [sym |-> sym, value |-> value, is_buy |-> is_buy]

\* available_for_trading = nav * (1.0 - reserve_percent)
AvailableForTrading(n) == Reduce(n * (100 - RestoreReservePercent), 100)

CreateInitialPositions(available, btc_leverage, shorts_leverage, shorts_symbols) ==
    LET target_btc_margin    == Scale(available, 2, 3)
        target_shorts_margin == Scale(available, 1, 3)
        btc_part ==
            IF Exceeds(target_btc_margin, MinOpenUsd)
            THEN <<OpenRequest("BTC", Scale(target_btc_margin, btc_leverage, 1), TRUE)>>
            ELSE <<>>
        per_symbol == Scale(target_shorts_margin, shorts_leverage, Len(shorts_symbols))
        shorts_part ==
            IF Exceeds(target_shorts_margin, MinOpenUsd)
            THEN [i \in 1..Len(shorts_symbols) |->
                     OpenRequest(shorts_symbols[i], per_symbol, FALSE)]
            ELSE <<>>
    IN  btc_part \o shorts_part

\* TRUE when _restore_positions takes the create-from-scratch branch
RestoreFromScratch(saved_state) ==
    \/ saved_state.positions = <<>>
    \/ saved_state.total_btc_value = 0
    \/ saved_state.total_btc_value + saved_state.total_shorts_value = 0

ProportionalRestoreByTargetRatio(saved_state, available) ==
    LET target_btc_value    == Scale(available, config.ratio_tgt, config.ratio_tgt + 100)
        target_shorts_value == Scale(available, 100, config.ratio_tgt + 100)
        btc_part ==
            IF Exceeds(target_btc_value, MinOpenUsd)
            THEN <<OpenRequest("BTC", target_btc_value, TRUE)>>
            ELSE <<>>
        shorts_positions == SelectSeq(saved_state.positions, LAMBDA s : s # "BTC")
        shorts_part ==
            IF shorts_positions # <<>> /\ Exceeds(target_shorts_value, MinOpenUsd)
            THEN [i \in 1..Len(shorts_positions) |->
                     OpenRequest(shorts_positions[i],
                                 Scale(target_shorts_value, 1, Len(shorts_positions)),
                                 FALSE)]
            ELSE <<>>
    IN  btc_part \o shorts_part

ProportionalRestore(saved_state, available) ==
    LET total_btc_value    == saved_state.total_btc_value
        total_shorts_value == saved_state.total_shorts_value
        total_value        == total_btc_value + total_shorts_value
        target_btc_value    == Scale(available, total_btc_value, total_value)
        target_shorts_value == Scale(available, total_shorts_value, total_value)
        btc_part ==
            IF Exceeds(target_btc_value, MinOpenUsd)
            THEN <<OpenRequest("BTC", target_btc_value, TRUE)>>
            ELSE <<>>
        shorts_positions == SelectSeq(saved_state.positions, LAMBDA s : s # "BTC")
        shorts_part ==
            IF shorts_positions # <<>> /\ Exceeds(target_shorts_value, MinOpenUsd)
            THEN [i \in 1..Len(shorts_positions) |->
                     OpenRequest(shorts_positions[i],
                                 Scale(target_shorts_value, 1, Len(shorts_positions)),
                                 FALSE)]
            ELSE <<>>
    IN  btc_part \o shorts_part

RestorePositions(saved_state, btc_leverage, shorts_leverage) ==
    LET available == AvailableForTrading(saved_state.nav)
    IN  IF RestoreFromScratch(saved_state)
        THEN CreateInitialPositions(available, btc_leverage, shorts_leverage,
                                    StandardShorts)
        ELSE ProportionalRestore(saved_state, available)

(***************************************************************************)
(* _validate_order_size: size is the fraction <<n, d>> of a coin; the      *)
(* result is in hundredths of a coin                                       *)
(***************************************************************************)
\* millionths of a coin in one hundredth, the unit sizes are kept in
MillionthsPerUnit == 100 * 100

ValidateOrderSize(symbol, size) ==
    IF symbol \notin DOMAIN AssetMeta
    THEN [ok |-> FALSE, size |-> 0]
    ELSE LET meta    == AssetMeta[symbol]
             steps   == RoundMillionths(size[1], size[2] * meta.szStep)
             stepped == steps * meta.szStep
             unit    == Pow10(6 - meta.szDecimals)
             rounded == RoundHalfEven(stepped, unit) * unit
         IN  [ok |-> rounded >= meta.minSz, size |-> rounded \div MillionthsPerUnit]

(***************************************************************************)
(* strategy.py: get_portfolio_state.  Values are in cents, margins in      *)
(* tens of dollars (cents over thousandths of leverage) as fractions,      *)
(* position_ratio is a fraction.                                           *)
(***************************************************************************)
\* marginUsed the venue reports for an open position: notional / leverage
MarginUsed(s) == Frac(Abs(vpos[s]) * Price(s), vlev[s])

RECURSIVE SumMargins(_)
SumMargins(S) ==
    IF S = {} THEN <<0, 1>>
    ELSE LET s == CHOOSE x \in S : TRUE
         IN  FAdd(MarginUsed(s), SumMargins(S \ {s}))

RECURSIVE SumShortsValue(_, _, _)
SumShortsValue(S, shorts_positions, prices) ==
    IF S = {} THEN 0
    ELSE LET s == CHOOSE x \in S : TRUE
         IN  Abs(shorts_positions[s]) * Get(prices, s, 0)
             + SumShortsValue(S \ {s}, shorts_positions, prices)

NoPortfolio ==
    [nav |-> 0, btc_position |-> 0, shorts_positions |-> <<>>,
     btc_value_usd |-> 0, shorts_value_usd |-> 0,
     btc_margin |-> <<0, 1>>, shorts_margin |-> <<0, 1>>,
     position_ratio |-> <<0, 1>>]

PortfolioStateZeroRatio(posOk, acctOk, midsOk, detOk, shorts_symbols) ==
    LET positions == IF posOk THEN [s \in OpenSymbols |-> vpos[s]] ELSE <<>>
        prices    == GetPrices(Tracked(shorts_symbols), midsOk)
        btc_position     == Get(positions, "BTC", 0)
        shorts_positions == [s \in Range(shorts_symbols) |-> Get(positions, s, 0)]
        details   == IF detOk THEN OpenSymbols ELSE {}
        btc_margin    == SumMargins(details \cap {"BTC"})
        shorts_margin == SumMargins((details \ {"BTC"}) \cap Range(shorts_symbols))
    IN  [nav |-> IF acctOk THEN nav ELSE 0,
         btc_position |-> btc_position,
         shorts_positions |-> shorts_positions,
         btc_value_usd |-> btc_position * Get(prices, "BTC", 0),
         shorts_value_usd |->
             SumShortsValue(Range(shorts_symbols), shorts_positions, prices),
         btc_margin |-> btc_margin,
         shorts_margin |-> shorts_margin,
         position_ratio |->
             IF shorts_margin[1] > 0
             THEN Frac(btc_margin[1] * shorts_margin[2],
                       btc_margin[2] * shorts_margin[1])
             ELSE <<0, 1>>]

\* posOk, acctOk, detOk: the three user_state reads of the position provider
\* answered; midsOk: the all_mids read answered.  A failed read is swallowed
\* by the provider, which returns an empty result
PortfolioState(posOk, acctOk, midsOk, detOk, shorts_symbols) ==
    LET positions == IF posOk THEN [s \in OpenSymbols |-> vpos[s]] ELSE <<>>
        prices    == GetPrices(Tracked(shorts_symbols), midsOk)
        btc_position     == Get(positions, "BTC", 0)
        shorts_positions == [s \in Range(shorts_symbols) |-> Get(positions, s, 0)]
        details   == IF detOk THEN OpenSymbols ELSE {}
        btc_margin    == SumMargins(details \cap {"BTC"})
        shorts_margin == SumMargins((details \ {"BTC"}) \cap Range(shorts_symbols))
    IN  [nav |-> IF acctOk THEN nav ELSE 0,
         btc_position |-> btc_position,
         shorts_positions |-> shorts_positions,
         btc_value_usd |-> btc_position * Get(prices, "BTC", 0),
         shorts_value_usd |->
             SumShortsValue(Range(shorts_symbols), shorts_positions, prices),
         btc_margin |-> btc_margin,
         shorts_margin |-> shorts_margin,
         position_ratio |->
             IF shorts_margin[1] > 0
             THEN Frac(btc_margin[1] * shorts_margin[2],
                       btc_margin[2] * shorts_margin[1])
             ELSE <<SentinelRatio, 1>>]

(***************************************************************************)
(* strategy.py: calculate_rebalance_decision.  ratio_target is in          *)
(* hundredths, reserve_percent and rebalance_threshold in percent; the     *)
(* targets are fractions of a dollar, the current values are in cents.     *)
(* status is "raised" when the division by ratio_target + 1 raises         *)
(* ZeroDivisionError.                                                      *)
(***************************************************************************)
NoDecision ==
    [status |-> "none", should_rebalance |-> FALSE,
     btc_target_usd |-> <<0, 1>>, shorts_target_usd |-> <<0, 1>>,
     btc_current_usd |-> 0, shorts_current_usd |-> 0,
     current_ratio |-> <<0, 1>>, deviation_percent |-> <<0, 1>>]

CalculateRebalanceDecisionAtThreshold(p, ratio_target, reserve_percent, rebalance_threshold) ==
    IF ratio_target + 100 = 0
    THEN [NoDecision EXCEPT !.status = "raised"]
    ELSE LET available_for_trading == Frac(p.nav * (100 - reserve_percent), 100)
             btc_target_usd    == Frac(available_for_trading[1] * ratio_target,
                                       available_for_trading[2] * (ratio_target + 100))
             shorts_target_usd == Frac(available_for_trading[1] * 100,
                                       available_for_trading[2] * (ratio_target + 100))
             deviation_percent ==
                 IF ratio_target > 0
                 THEN Frac(Abs(100 * p.position_ratio[1]
                               - ratio_target * p.position_ratio[2]),
                           ratio_target * p.position_ratio[2])
                 ELSE <<0, 1>>
         IN  [status |-> "returned",
              should_rebalance |-> ~FGt(<<rebalance_threshold, 100>>, deviation_percent),
              btc_target_usd |-> btc_target_usd,
              shorts_target_usd |-> shorts_target_usd,
              btc_current_usd |-> p.btc_value_usd,
              shorts_current_usd |-> p.shorts_value_usd,
              current_ratio |-> p.position_ratio,
              deviation_percent |-> deviation_percent]

CalculateRebalanceDecisionFixedSplit(p, ratio_target, reserve_percent, rebalance_threshold) ==
    IF ratio_target + 100 = 0
    THEN [NoDecision EXCEPT !.status = "raised"]
    ELSE LET available_for_trading == Frac(p.nav * (100 - reserve_percent), 100)
             btc_target_usd    == Frac(available_for_trading[1] * ratio_target,
                                       available_for_trading[2] * (ratio_target + 100))
             shorts_target_usd == Frac(available_for_trading[1] * 100,
                                       available_for_trading[2] * 300)
             deviation_percent ==
                 IF ratio_target > 0
                 THEN Frac(Abs(100 * p.position_ratio[1]
                               - ratio_target * p.position_ratio[2]),
                           ratio_target * p.position_ratio[2])
                 ELSE <<0, 1>>
         IN  [status |-> "returned",
              should_rebalance |-> FGt(deviation_percent, <<rebalance_threshold, 100>>),
              btc_target_usd |-> btc_target_usd,
              shorts_target_usd |-> shorts_target_usd,
              btc_current_usd |-> p.btc_value_usd,
              shorts_current_usd |-> p.shorts_value_usd,
              current_ratio |-> p.position_ratio,
              deviation_percent |-> deviation_percent]

CalculateRebalanceDecision(p, ratio_target, reserve_percent, rebalance_threshold) ==
    IF ratio_target + 100 = 0
    THEN [NoDecision EXCEPT !.status = "raised"]
    ELSE LET available_for_trading == Frac(p.nav * (100 - reserve_percent), 100)
             btc_target_usd    == Frac(available_for_trading[1] * ratio_target,
                                       available_for_trading[2] * (ratio_target + 100))
             shorts_target_usd == Frac(available_for_trading[1] * 100,
                                       available_for_trading[2] * (ratio_target + 100))
             deviation_percent ==
                 IF ratio_target > 0
                 THEN Frac(Abs(100 * p.position_ratio[1]
                               - ratio_target * p.position_ratio[2]),
                           ratio_target * p.position_ratio[2])
                 ELSE <<0, 1>>
         IN  [status |-> "returned",
              should_rebalance |-> FGt(deviation_percent, <<rebalance_threshold, 100>>),
              btc_target_usd |-> btc_target_usd,
              shorts_target_usd |-> shorts_target_usd,
              btc_current_usd |-> p.btc_value_usd,
              shorts_current_usd |-> p.shorts_value_usd,
              current_ratio |-> p.position_ratio,
              deviation_percent |-> deviation_percent]

(***************************************************************************)
(* order_executor.py: validate_order_size and place_market_order           *)
(***************************************************************************)
\* a validator that moves every size up to the next lot
ExecutorValidateOrderSizeNextLot(symbol, size) ==
    IF symbol \notin DOMAIN AssetMeta
    THEN [ok |-> FALSE, size |-> 0]
    ELSE LET meta    == AssetMeta[symbol]
             steps   == RoundMillionths(size[1], size[2] * meta.szStep)
             stepped == steps * meta.szStep
             unit    == Pow10(6 - meta.szDecimals)
             rounded == (stepped \div unit + 1) * unit
         IN  [ok |-> rounded >= meta.minSz, size |-> rounded \div MillionthsPerUnit]

ExecutorValidateOrderSize(symbol, size) ==
    IF symbol \notin DOMAIN AssetMeta
    THEN [ok |-> FALSE, size |-> 0]
    ELSE LET meta    == AssetMeta[symbol]
             steps   == RoundMillionths(size[1], size[2] * meta.szStep)
             stepped == steps * meta.szStep
             unit    == Pow10(6 - meta.szDecimals)
             rounded == RoundHalfEven(stepped, unit) * unit
         IN  [ok |-> rounded >= meta.minSz, size |-> rounded \div MillionthsPerUnit]

\* a place_market_order that sends whatever size it was given
PlaceMarketOrderUnvalidated(symbol, is_buy, size, resp) ==
    CHOOSE r \in
        { [sent |-> TRUE, success |-> resp = "ok", size |-> v.size] :
          v \in {ExecutorValidateOrderSize(symbol, size)} } : TRUE

\* the OrderResult of place_market_order when the venue answers resp to the
\* market_open it sends; an order that fails validation is not sent
PlaceMarketOrder(symbol, is_buy, size, resp) ==
    CHOOSE r \in
        { [sent |-> v.ok, success |-> v.ok /\ resp = "ok", size |-> v.size] :
          v \in {ExecutorValidateOrderSize(symbol, size)} } : TRUE

(***************************************************************************)
(* Log of gateway calls                                                    *)
(***************************************************************************)
\* op: "check", "snapshot", "provider", "snapshot_prices", "positions", "close",
\*     "lev", "open_provider", "open_price", "open", and "open_skipped" for an
\*     order _open_position gave up before market_open;
\* ok: the call answered with success;
\* val: leverage requested (lev) or size ordered (open);
\* held: some position was open on the venue when the call was issued
Call(op, sym, ok, val, buy) ==
    [op |-> op, sym |-> sym, ok |-> ok, val |-> val, buy |-> buy,
     held |-> AnyPositionOpen]

Responses == {"ok", "error", "raise"}

\* no size is being put through the validators
NoValidation == [ok |-> FALSE, size |-> -1]

NoSizing == [by |-> "none", symbol |-> "none", size |-> <<0, 1>>,
             first |-> NoValidation, again |-> NoValidation]

\* no component is being checked on its own
NoComponent == [kind |-> "none"]

(***************************************************************************)
(* Init                                                                    *)
(***************************************************************************)
Init ==
    /\ config \in Configs
    /\ nav \in InitialNavs
    /\ vpos \in InitialPositions
    /\ nav < MinAccountForPositions => vpos = Flat
    /\ vlev \in InitialLeverages
    /\ vpos \in RebalancePositions => vlev = [s \in Symbols |-> 3000]
    /\ vlev \in NearbyLeverages => (vpos \in StandardPositions /\ nav >= MinAccountForPositions)
    /\ running = FALSE
    /\ pc = "idle"
    /\ cycle_count = 0
    /\ compliance = <<>>
    /\ lev_read = <<>>
    /\ current_state = EmptyState
    /\ queue = <<>>
    /\ success = TRUE
    /\ plan = <<>>
    /\ branch = "none"
    /\ open_at_close = {}
    /\ close_result = "none"
    /\ lev_result = "none"
    /\ calls = <<>>
    /\ fresult = "none"
    /\ cycle_ok = "none"
    /\ failed_runs = 0
    /\ rerun = FALSE
    /\ portfolio = NoPortfolio
    /\ decision = NoDecision
    /\ exec_prices = <<>>
    /\ orders = <<>>
    /\ exec_result = "none"
    /\ slept = 0
    /\ saves = 0
    /\ cleanups = 0
    /\ sizing = NoSizing
    /\ component = NoComponent
    /\ faults = 0

\* the environment injects n more failures
Inject(n) == faults + n <= MaxFaults /\ faults' = faults + n

Bit(b) == IF b THEN 1 ELSE 0

venue == <<nav, vpos, vlev>>
rebalance == <<portfolio, decision, exec_prices, orders, exec_result>>
locals == <<compliance, lev_read, current_state, queue, success, plan, branch,
            open_at_close, close_result, lev_result, calls, fresult, cycle_ok,
            rebalance>>
ghost == <<failed_runs, rerun>>
\* what only the main loop and the sizing check write
loop == <<slept, saves, cleanups, sizing, component>>

(***************************************************************************)
(* trader.py: run_main_loop, run_trading_cycle, _signal_handler, cleanup   *)
(***************************************************************************)
RunMainLoop ==
    /\ pc = "idle"
    /\ UNCHANGED faults
    /\ running' = TRUE
    /\ cycle_count' = 0
    /\ pc' = "loop_top"
    /\ UNCHANGED <<config, loop, venue, locals, ghost>>

\* the locals of run_strategy_cycle and the logs of a cycle before the
\* cycle has run
FreshCycle ==
    /\ compliance' = <<>>
    /\ lev_read' = <<>>
    /\ current_state' = EmptyState
    /\ queue' = <<>>
    /\ success' = TRUE
    /\ plan' = <<>>
    /\ branch' = "none"
    /\ open_at_close' = {}
    /\ close_result' = "none"
    /\ lev_result' = "none"
    /\ calls' = <<>>
    /\ fresult' = "none"
    /\ portfolio' = NoPortfolio
    /\ decision' = NoDecision
    /\ exec_prices' = <<>>
    /\ orders' = <<>>
    /\ exec_result' = "none"

\* a loop that goes on only after a cycle that did not fail
StartCycleAfterSuccess ==
    /\ pc = "loop_top"
    /\ UNCHANGED faults
    /\ running
    /\ cycle_ok # "failed"
    /\ cycle_count < MaxCycles
    /\ cycle_count' = cycle_count + 1
    /\ pc' = "get_portfolio"
    /\ FreshCycle
    /\ cycle_ok' = "none"
    /\ UNCHANGED <<config, loop, venue, running, ghost>>

\* while self.running: cycle_count += 1; run_trading_cycle()
StartCycle ==
    /\ pc = "loop_top"
    /\ UNCHANGED faults
    /\ running
    /\ cycle_count < MaxCycles
    /\ cycle_count' = cycle_count + 1
    /\ pc' = "get_portfolio"
    /\ FreshCycle
    /\ cycle_ok' = "none"
    /\ UNCHANGED <<config, loop, venue, running, ghost>>

\* a loop that is left only after a cycle that did not fail
ExitLoopAfterSuccess ==
    /\ pc = "loop_top"
    /\ UNCHANGED faults
    /\ ~running
    /\ cycle_ok # "failed"
    /\ pc' = "cleanup"
    /\ UNCHANGED <<config, loop, venue, running, cycle_count, locals, ghost>>

\* a stop that takes effect wherever the thread of control is
ExitLoopAnywhere ==
    /\ pc \notin {"idle", "cleanup", "stopped"}
    /\ UNCHANGED faults
    /\ ~running
    /\ pc' = "cleanup"
    /\ UNCHANGED <<config, loop, venue, running, cycle_count, locals, ghost>>

\* the while condition is false: leave the loop, finally: cleanup()
ExitLoop ==
    /\ pc = "loop_top"
    /\ UNCHANGED faults
    /\ ~running
    /\ pc' = "cleanup"
    /\ UNCHANGED <<config, loop, venue, running, cycle_count, locals, ghost>>

\* a run_trading_cycle that saves the state of successful cycles only
SaveStateOnSuccess ==
    /\ pc = "save_state"
    /\ UNCHANGED faults
    /\ saves' = IF cycle_ok = "ok" THEN saves + 1 ELSE saves
    /\ FreshCycle
    /\ pc' = "sleep"
    /\ UNCHANGED <<config, venue, running, cycle_count, cycle_ok, ghost,
                   slept, cleanups, sizing, component>>

\* run_trading_cycle after the strategy cycle returned: save_state(), then
\* return success to run_main_loop; the locals of the cycle are gone
SaveState ==
    /\ pc = "save_state"
    /\ UNCHANGED faults
    /\ saves' = saves + 1
    /\ FreshCycle
    /\ pc' = "sleep"
    /\ UNCHANGED <<config, venue, running, cycle_count, cycle_ok, ghost,
                   slept, cleanups, sizing, component>>

\* if self.running: the inter-cycle sleep is entered
EnterSleep ==
    /\ pc = "sleep"
    /\ UNCHANGED faults
    /\ slept' = 0
    /\ pc' = IF running THEN "sleeping" ELSE "loop_top"
    /\ UNCHANGED <<config, venue, running, cycle_count, locals, ghost,
                   saves, cleanups, sizing, component>>

\* a sleep that does not look at the run flag
SleepWholeInterval ==
    /\ pc = "sleeping"
    /\ UNCHANGED faults
    /\ IF slept < SleepDuration
       THEN slept' = slept + 1 /\ pc' = pc
       ELSE slept' = 0 /\ pc' = "loop_top"
    /\ UNCHANGED <<config, venue, running, cycle_count, locals, ghost,
                   saves, cleanups, sizing, component>>

\* for i in range(sleep_duration): if not self.running: break; time.sleep(1)
Sleep ==
    /\ pc = "sleeping"
    /\ UNCHANGED faults
    /\ IF slept < SleepDuration /\ running
       THEN slept' = slept + 1 /\ pc' = pc
       ELSE slept' = 0 /\ pc' = "loop_top"
    /\ UNCHANGED <<config, venue, running, cycle_count, locals, ghost,
                   saves, cleanups, sizing, component>>

SignalHandler ==
    /\ pc \notin {"idle", "cleanup", "stopped"}
    /\ UNCHANGED faults
    /\ running
    /\ running' = FALSE
    /\ UNCHANGED <<config, loop, venue, pc, cycle_count, locals, ghost>>

\* cleanup(): save_state() and the final summary
Cleanup ==
    /\ pc = "cleanup"
    /\ UNCHANGED faults
    /\ saves' = saves + 1
    /\ cleanups' = cleanups + 1
    /\ pc' = "stopped"
    /\ UNCHANGED <<config, venue, running, cycle_count, locals, ghost,
                   slept, sizing, component>>

(***************************************************************************)
(* strategy.py: run_strategy_cycle                                         *)
(***************************************************************************)
\* portfolio = self.get_portfolio_state(): three account reads and one price
\* read, each of which may fail
GetPortfolioState ==
    /\ pc = "get_portfolio"
    /\ \E posOk \in BOOLEAN, acctOk \in BOOLEAN, midsOk \in BOOLEAN, detOk \in BOOLEAN :
          /\ Inject(Bit(~posOk) + Bit(~acctOk) + Bit(~midsOk) + Bit(~detOk))
          /\ portfolio' = PortfolioState(posOk, acctOk, midsOk, detOk, config.shorts)
    /\ pc' = "load_config"
    /\ UNCHANGED <<config, loop, venue, running, cycle_count, compliance, lev_read,
                   current_state, queue, success, plan, branch, open_at_close,
                   close_result, lev_result, calls, fresult, cycle_ok, decision,
                   exec_prices, orders, exec_result, ghost>>

\* config = ConfigManager(); a raise is caught by the inner except and the
\* cycle goes on to the rebalance decision
LoadCycleConfig ==
    /\ pc = "load_config"
    /\ \E loaded \in BOOLEAN :
          /\ Inject(Bit(~loaded))
          /\ pc' = IF loaded THEN "check" ELSE "decide"
    /\ UNCHANGED <<config, loop, venue, running, cycle_count, locals, ghost>>

\* compliance = check_leverage_compliance(...); force_leverage_compliance is
\* entered when some symbol is non-compliant
CheckCompliance ==
    /\ pc = "check"
    /\ \E readOk \in BOOLEAN :
          /\ Inject(Bit(~readOk))
          /\ lev_read' = GetCurrentLeverages(readOk)
          /\ compliance' = CheckLeverageCompliance(lev_read', config.leverage_btc,
                                                   config.leverage_shorts, config.shorts)
    /\ IF NonCompliant(compliance') # {}
       THEN /\ pc' = "force_check"
            /\ rerun' = (rerun \/ failed_runs > 0)
       ELSE /\ pc' = "decide"
            /\ rerun' = rerun
    /\ UNCHANGED <<config, loop, venue, running, cycle_count, current_state, queue,
                   success, plan, branch, open_at_close, close_result,
                   lev_result, calls, fresult, cycle_ok, failed_runs, rebalance>>

\* what the rebalance stage leaves alone
untouched == <<config, loop, nav, vlev, running, cycle_count, compliance, lev_read,
               current_state, plan, branch, open_at_close, close_result,
               lev_result, calls, fresult, portfolio, ghost>>

\* decision = self.calculate_rebalance_decision(portfolio); a raise is caught
\* by the outer except of run_strategy_cycle, which returns False; without a
\* rebalance the cycle returns True
RebalanceStage ==
    /\ pc = "decide"
    /\ UNCHANGED faults
    /\ decision' = CalculateRebalanceDecision(portfolio, config.ratio_tgt,
                        config.reserve_usd_percent, config.rebalance_threshold)
    /\ IF decision'.status = "raised"
       THEN cycle_ok' = "failed" /\ pc' = "save_state"
       ELSE IF decision'.should_rebalance
       THEN cycle_ok' = cycle_ok /\ pc' = "execute"
       ELSE cycle_ok' = "ok" /\ pc' = "save_state"
    /\ UNCHANGED <<untouched, vpos, queue, success, exec_prices, orders, exec_result>>

\* execute_rebalance: success = True; prices = get_prices(["BTC"] + shorts)
BeginExecute ==
    /\ pc = "execute"
    /\ \E midsOk \in BOOLEAN :
          /\ Inject(Bit(~midsOk))
          /\ exec_prices' = GetPrices(Tracked(config.shorts), midsOk)
    /\ success' = TRUE
    /\ pc' = "exec_core"
    /\ UNCHANGED <<untouched, vpos, queue, decision, orders, exec_result, cycle_ok>>

\* an entry of the order log.  kind is "order" for a place_market_order call
\* and "unpriced" for a core order given up for want of a price; notional is
\* abs(diff) in dollars, target the dollar target of the symbol, size the
\* validated size in hundredths of a coin
Order(kind, sym, is_buy, notional, target, r) ==
    [kind |-> kind, sym |-> sym, is_buy |-> is_buy, notional |-> notional,
     target |-> target, size |-> r.size, sent |-> r.sent, ok |-> r.success]

\* the position after an order of the given size was filled
Filled(sym, is_buy, r) ==
    IF r.success
    THEN [vpos EXCEPT ![sym] = @ + (IF is_buy THEN r.size ELSE -r.size)]
    ELSE vpos

\* the symbols the hedge loop goes through: all of them when the aggregate
\* difference exceeds its threshold, none otherwise
ShortsToVisit(d, shorts_symbols) ==
    IF FGt(FAbs(FSub(d.shorts_target_usd, <<d.shorts_current_usd, 100>>)),
           <<MinShortsDiffUsd, 1>>)
    THEN shorts_symbols
    ELSE <<>>

\* the core part of execute_rebalance
ExecuteCoreStopOnFailure ==
    /\ pc = "exec_core"
    /\ LET btc_diff_usd == FSub(decision.btc_target_usd,
                                <<decision.btc_current_usd, 100>>)
           btc_price    == Get(exec_prices, "BTC", 0)
           is_buy       == btc_diff_usd[1] > 0
       IN  IF ~FGt(FAbs(btc_diff_usd), <<MinCoreDiffUsd, 1>>)
           THEN /\ UNCHANGED <<vpos, orders, success, faults>>
                /\ queue' = ShortsToVisit(decision, config.shorts)
           ELSE IF btc_price <= 0
           THEN /\ success' = FALSE
                /\ orders' = Append(orders,
                       Order("unpriced", "BTC", is_buy, FAbs(btc_diff_usd),
                             decision.btc_target_usd,
                             [sent |-> FALSE, success |-> FALSE, size |-> 0]))
                /\ queue' = <<>>
                /\ UNCHANGED <<vpos, faults>>
           ELSE \E resp \in Responses :
                   LET size == Frac(FAbs(btc_diff_usd)[1],
                                    btc_diff_usd[2] * btc_price)
                       r    == PlaceMarketOrder("BTC", is_buy, size, resp)
                   IN  /\ ~r.sent => resp = "error"
                       /\ Inject(Bit(r.sent /\ resp # "ok"))
                       /\ orders' = Append(orders,
                              Order("order", "BTC", is_buy, FAbs(btc_diff_usd),
                                    decision.btc_target_usd, r))
                       /\ vpos' = Filled("BTC", is_buy, r)
                       /\ success' = (success /\ r.success)
                       /\ queue' = IF r.success
                                   THEN ShortsToVisit(decision, config.shorts)
                                   ELSE <<>>
    /\ pc' = "exec_shorts"
    /\ UNCHANGED <<untouched, decision, exec_prices, exec_result, cycle_ok>>

ExecuteCore ==
    /\ pc = "exec_core"
    /\ LET btc_diff_usd == FSub(decision.btc_target_usd,
                                <<decision.btc_current_usd, 100>>)
           btc_price    == Get(exec_prices, "BTC", 0)
           is_buy       == btc_diff_usd[1] > 0
       IN  IF ~FGt(FAbs(btc_diff_usd), <<MinCoreDiffUsd, 1>>)
           THEN UNCHANGED <<vpos, orders, success, faults>>
           ELSE IF btc_price <= 0
           THEN /\ success' = FALSE
                /\ orders' = Append(orders,
                       Order("unpriced", "BTC", is_buy, FAbs(btc_diff_usd),
                             decision.btc_target_usd,
                             [sent |-> FALSE, success |-> FALSE, size |-> 0]))
                /\ UNCHANGED <<vpos, faults>>
           ELSE \E resp \in Responses :
                   LET size == Frac(FAbs(btc_diff_usd)[1],
                                    btc_diff_usd[2] * btc_price)
                       r    == PlaceMarketOrder("BTC", is_buy, size, resp)
                   IN  /\ ~r.sent => resp = "error"
                       /\ Inject(Bit(r.sent /\ resp # "ok"))
                       /\ orders' = Append(orders,
                              Order("order", "BTC", is_buy, FAbs(btc_diff_usd),
                                    decision.btc_target_usd, r))
                       /\ vpos' = Filled("BTC", is_buy, r)
                       /\ success' = (success /\ r.success)
    /\ queue' = ShortsToVisit(decision, config.shorts)
    /\ pc' = "exec_shorts"
    /\ UNCHANGED <<untouched, decision, exec_prices, exec_result, cycle_ok>>

ExecuteShortWholeTarget ==
    /\ pc = "exec_shorts"
    /\ queue # <<>>
    /\ LET symbol       == Head(queue)
           symbol_price == Get(exec_prices, symbol, 0)
           current_position_usd ==
               Abs(Get(portfolio.shorts_positions, symbol, 0)) * symbol_price
           target_position_usd ==
               decision.shorts_target_usd
           position_diff_usd ==
               FSub(target_position_usd, <<current_position_usd, 100>>)
           is_buy == ~(position_diff_usd[1] > 0)
       IN  IF symbol_price = 0
              \/ ~FGt(FAbs(position_diff_usd), <<MinSymbolDiffUsd, 1>>)
           THEN UNCHANGED <<vpos, orders, success, faults>>
           ELSE \E resp \in Responses :
                   LET order_size == Frac(FAbs(position_diff_usd)[1],
                                          position_diff_usd[2] * symbol_price)
                       r == PlaceMarketOrder(symbol, is_buy, order_size, resp)
                   IN  /\ ~r.sent => resp = "error"
                       /\ Inject(Bit(r.sent /\ resp # "ok"))
                       /\ orders' = Append(orders,
                              Order("order", symbol, is_buy, FAbs(position_diff_usd),
                                    target_position_usd, r))
                       /\ vpos' = Filled(symbol, is_buy, r)
                       /\ success' = (success /\ r.success)
    /\ queue' = Tail(queue)
    /\ UNCHANGED <<untouched, pc, decision, exec_prices, exec_result, cycle_ok>>

\* one pass of the hedge loop of execute_rebalance
ExecuteShort ==
    /\ pc = "exec_shorts"
    /\ queue # <<>>
    /\ LET symbol       == Head(queue)
           symbol_price == Get(exec_prices, symbol, 0)
           current_position_usd ==
               Abs(Get(portfolio.shorts_positions, symbol, 0)) * symbol_price
           target_position_usd ==
               Frac(decision.shorts_target_usd[1],
                    decision.shorts_target_usd[2] * Len(config.shorts))
           position_diff_usd ==
               FSub(target_position_usd, <<current_position_usd, 100>>)
           is_buy == ~(position_diff_usd[1] > 0)
       IN  IF symbol_price = 0
              \/ ~FGt(FAbs(position_diff_usd), <<MinSymbolDiffUsd, 1>>)
           THEN UNCHANGED <<vpos, orders, success, faults>>
           ELSE \E resp \in Responses :
                   LET order_size == Frac(FAbs(position_diff_usd)[1],
                                          position_diff_usd[2] * symbol_price)
                       r == PlaceMarketOrder(symbol, is_buy, order_size, resp)
                   IN  /\ ~r.sent => resp = "error"
                       /\ Inject(Bit(r.sent /\ resp # "ok"))
                       /\ orders' = Append(orders,
                              Order("order", symbol, is_buy, FAbs(position_diff_usd),
                                    target_position_usd, r))
                       /\ vpos' = Filled(symbol, is_buy, r)
                       /\ success' = (success /\ r.success)
    /\ queue' = Tail(queue)
    /\ UNCHANGED <<untouched, pc, decision, exec_prices, exec_result, cycle_ok>>

\* execute_rebalance returns success; run_strategy_cycle returns it
ExecuteReturn ==
    /\ pc = "exec_shorts"
    /\ queue = <<>>
    /\ UNCHANGED faults
    /\ exec_result' = IF success THEN "ok" ELSE "failed"
    /\ cycle_ok' = IF success THEN "ok" ELSE "failed"
    /\ pc' = "save_state"
    /\ UNCHANGED <<untouched, vpos, queue, success, decision, exec_prices, orders>>

(***************************************************************************)
(* risk_manager.py: force_leverage_compliance and its steps                *)
(***************************************************************************)
\* what no step of the protocol touches
outside == <<config, loop, nav, running, cycle_count, compliance, lev_read, rerun,
             rebalance>>

\* a cycle that goes on to the rebalance stage after a successful reset
ProtocolReturnThenRebalance(ok) ==
    /\ fresult' = IF ok THEN "DONE" ELSE "FAILED"
    /\ cycle_ok' = IF ok THEN cycle_ok ELSE "failed"
    /\ failed_runs' = IF ok THEN failed_runs ELSE failed_runs + 1
    /\ pc' = IF ok THEN "decide" ELSE "save_state"

\* force_leverage_compliance returns ok to run_strategy_cycle, which returns
\* the same value to run_trading_cycle
ProtocolReturn(ok) ==
    /\ fresult' = IF ok THEN "DONE" ELSE "FAILED"
    /\ cycle_ok' = IF ok THEN "ok" ELSE "failed"
    /\ failed_runs' = IF ok THEN failed_runs ELSE failed_runs + 1
    /\ pc' = "save_state"

\* the protocol goes on to its next step
ProtocolGoto(label) ==
    /\ pc' = label
    /\ UNCHANGED <<fresult, cycle_ok, failed_runs>>

\* the check at the head of force_leverage_compliance: a second leverage read
ForceCheck ==
    /\ pc = "force_check"
    /\ \E readOk \in BOOLEAN :
          LET c == CheckLeverageCompliance(GetCurrentLeverages(readOk),
                       config.leverage_btc, config.leverage_shorts, config.shorts)
          IN  /\ Inject(Bit(~readOk))
              /\ calls' = Append(calls, Call("check", "", readOk,
                                             Cardinality(NonCompliant(c)), FALSE))
              /\ IF NonCompliant(c) = {}
                 THEN ProtocolReturn(TRUE)
                 ELSE ProtocolGoto("snapshot")
    /\ UNCHANGED <<outside, vpos, vlev, current_state, queue, success, plan,
                   branch, open_at_close, close_result, lev_result>>

\* current_state = self._save_portfolio_state(shorts): the account read, the
\* construction of the price provider and its all_mids read
SaveSnapshot ==
    /\ pc = "snapshot"
    /\ \E readOk \in BOOLEAN, providerOk \in BOOLEAN, midsOk \in BOOLEAN :
          /\ ~readOk => (providerOk /\ midsOk)
          /\ ~providerOk => midsOk
          /\ Inject(Bit(~readOk) + Bit(~providerOk) + Bit(~midsOk))
          /\ current_state' = SavePortfolioState(readOk, providerOk, midsOk,
                                                 config.shorts)
          /\ calls' = calls
                \o <<Call("snapshot", "", readOk, 0, FALSE)>>
                \o (IF readOk
                    THEN <<Call("provider", "", providerOk, 0, FALSE)>>
                    ELSE <<>>)
                \o (IF readOk /\ providerOk
                    THEN <<Call("snapshot_prices", "", midsOk, 0, FALSE)>>
                    ELSE <<>>)
    /\ IF current_state'.empty
       THEN ProtocolReturn(FALSE)
       ELSE ProtocolGoto("close_read")
    /\ UNCHANGED <<outside, vpos, vlev, queue, success, plan, branch,
                   open_at_close, close_result, lev_result>>

\* _close_all_positions: the position read and the list positions_to_close
CloseRead ==
    /\ pc = "close_read"
    /\ open_at_close' = OpenSymbols
    /\ \E readOk \in BOOLEAN :
          /\ Inject(Bit(~readOk))
          /\ calls' = Append(calls, Call("positions", "", readOk, 0, FALSE))
          /\ IF ~readOk
             THEN /\ ProtocolReturn(FALSE)
                  /\ close_result' = "failed"
                  /\ UNCHANGED <<queue, success>>
             ELSE IF AssetPositions = <<>>
             THEN /\ ProtocolGoto("set_leverage")
                  /\ close_result' = "ok"
                  /\ queue' = SetAllLeverages(config.leverage_btc,
                                              config.leverage_shorts, config.shorts)
                  /\ success' = TRUE
             ELSE /\ ProtocolGoto("close_all")
                  /\ close_result' = "none"
                  /\ queue' = AssetPositions
                  /\ success' = TRUE
    /\ UNCHANGED <<outside, vpos, vlev, current_state, plan, branch, lev_result>>

\* one pass of the close loop: self.exchange.market_close(coin); the venue
\* may accept the request (status ok) without the position going away
ClosePositionStopOnFailure ==
    /\ pc = "close_all"
    /\ queue # <<>>
    /\ \E resp \in Responses, filled \in BOOLEAN :
          /\ resp # "ok" => ~filled
          /\ Inject(Bit(~filled))
          /\ calls' = Append(calls, Call("close", Head(queue), resp = "ok", 0, FALSE))
          /\ vpos' = IF filled THEN [vpos EXCEPT ![Head(queue)] = 0] ELSE vpos
          /\ success' = (success /\ resp = "ok")
          /\ queue' = IF resp = "ok" THEN Tail(queue) ELSE <<>>
    /\ UNCHANGED <<outside, vlev, pc, current_state, plan, branch, open_at_close,
                   close_result, lev_result, fresult, cycle_ok, failed_runs>>

ClosePosition ==
    /\ pc = "close_all"
    /\ queue # <<>>
    /\ \E resp \in Responses, filled \in BOOLEAN :
          /\ resp # "ok" => ~filled
          /\ Inject(Bit(~filled))
          /\ calls' = Append(calls, Call("close", Head(queue), resp = "ok", 0, FALSE))
          /\ vpos' = IF filled THEN [vpos EXCEPT ![Head(queue)] = 0] ELSE vpos
          /\ success' = (success /\ resp = "ok")
          /\ queue' = Tail(queue)
    /\ UNCHANGED <<outside, vlev, pc, current_state, plan, branch, open_at_close,
                   close_result, lev_result, fresult, cycle_ok, failed_runs>>

\* after the loop: time.sleep(order_processing_delay); return success
CloseSettleIgnoringFailure ==
    /\ pc = "close_all"
    /\ queue = <<>>
    /\ close_result' = IF success THEN "ok" ELSE "failed"
    /\ ProtocolGoto("set_leverage")
    /\ queue' = SetAllLeverages(config.leverage_btc, config.leverage_shorts,
                                config.shorts)
    /\ success' = TRUE
    /\ UNCHANGED <<outside, vpos, vlev, current_state, plan, branch,
                   open_at_close, lev_result, calls, faults>>

CloseSettle ==
    /\ pc = "close_all"
    /\ queue = <<>>
    /\ close_result' = IF success THEN "ok" ELSE "failed"
    /\ IF success
       THEN /\ ProtocolGoto("set_leverage")
            /\ queue' = SetAllLeverages(config.leverage_btc,
                                        config.leverage_shorts, config.shorts)
            /\ success' = TRUE
       ELSE /\ ProtocolReturn(FALSE)
            /\ UNCHANGED <<queue, success>>
    /\ UNCHANGED <<outside, vpos, vlev, current_state, plan, branch,
                   open_at_close, lev_result, calls, faults>>

\* one update_leverage call of _set_all_leverages
UpdateLeverage ==
    /\ pc = "set_leverage"
    /\ queue # <<>>
    /\ \E resp \in Responses :
          LET req == Head(queue)
          IN  /\ Inject(Bit(resp # "ok"))
              /\ calls' = Append(calls, Call("lev", req.sym, resp = "ok", req.lev, FALSE))
              /\ vlev' = IF resp = "ok"
                         THEN [vlev EXCEPT ![req.sym] = req.lev * 1000]
                         ELSE vlev
              /\ success' = (success /\ resp = "ok")
    /\ queue' = Tail(queue)
    /\ UNCHANGED <<outside, vpos, pc, current_state, plan, branch, open_at_close,
                   close_result, lev_result, fresult, cycle_ok, failed_runs>>

\* after the updates: time.sleep(leverage_update_delay); return success
LeverageSettleIgnoringFailure ==
    /\ pc = "set_leverage"
    /\ queue = <<>>
    /\ lev_result' = IF success THEN "ok" ELSE "failed"
    /\ ProtocolGoto("restore")
    /\ UNCHANGED <<outside, vpos, vlev, current_state, queue, success, plan,
                   branch, open_at_close, close_result, calls, faults>>

LeverageSettle ==
    /\ pc = "set_leverage"
    /\ queue = <<>>
    /\ lev_result' = IF success THEN "ok" ELSE "failed"
    /\ IF success
       THEN ProtocolGoto("restore")
       ELSE ProtocolReturn(FALSE)
    /\ UNCHANGED <<outside, vpos, vlev, current_state, queue, success, plan,
                   branch, open_at_close, close_result, calls, faults>>

\* _restore_positions up to its first _open_position call
BeginRestore ==
    /\ pc = "restore"
    /\ branch' = IF RestoreFromScratch(current_state) THEN "initial" ELSE "proportional"
    /\ plan' = RestorePositions(current_state, config.leverage_btc,
                                config.leverage_shorts)
    /\ queue' = plan'
    /\ success' = TRUE
    /\ ProtocolGoto("reopen")
    /\ UNCHANGED <<outside, vpos, vlev, current_state, open_at_close,
                   close_result, lev_result, calls, faults>>

\* _open_position: price read, size validation, market_open
OpenPosition ==
    /\ pc = "reopen"
    /\ queue # <<>>
    /\ \E providerOk \in BOOLEAN, midsOk \in BOOLEAN, resp \in Responses :
          LET req    == Head(queue)
              price  == GetPrices({req.sym}, midsOk)[req.sym]
              priced == providerOk /\ price # 0
              v      == IF priced
                        THEN ValidateOrderSize(req.sym, <<req.value[1], req.value[2] * price>>)
                        ELSE [ok |-> FALSE, size |-> 0]
              sent   == priced /\ v.ok
              opened == sent /\ resp = "ok"
          IN  /\ ~providerOk => midsOk
              /\ ~sent => resp = "error"
              /\ Inject(Bit(~providerOk) + Bit(~midsOk) + Bit(sent /\ resp # "ok"))
              /\ calls' = calls
                    \o <<Call("open_provider", req.sym, providerOk, 0, FALSE)>>
                    \o (IF providerOk
                        THEN <<Call("open_price", req.sym, midsOk, 0, FALSE)>>
                        ELSE <<>>)
                    \o (IF sent
                        THEN <<Call("open", req.sym, resp = "ok", v.size, req.is_buy)>>
                        ELSE <<Call("open_skipped", req.sym, FALSE, v.size, req.is_buy)>>)
              /\ vpos' = IF opened
                         THEN [vpos EXCEPT ![req.sym] =
                                  @ + (IF req.is_buy THEN v.size ELSE -v.size)]
                         ELSE vpos
              /\ success' = (success /\ opened)
    /\ queue' = Tail(queue)
    /\ UNCHANGED <<outside, vlev, pc, current_state, plan, branch, open_at_close,
                   close_result, lev_result, fresult, cycle_ok, failed_runs>>

\* _restore_positions returns success; force_leverage_compliance returns it
RestoreReturn ==
    /\ pc = "reopen"
    /\ queue = <<>>
    /\ ProtocolReturn(success)
    /\ UNCHANGED <<outside, vpos, vlev, current_state, queue, success, plan,
                   branch, open_at_close, close_result, lev_result, calls, faults>>

(***************************************************************************)
(* Specification                                                           *)
(***************************************************************************)
Next ==
    \/ RunMainLoop
    \/ StartCycle
    \/ ExitLoop
    \/ SaveState
    \/ EnterSleep
    \/ Sleep
    \/ SignalHandler
    \/ Cleanup
    \/ GetPortfolioState
    \/ LoadCycleConfig
    \/ CheckCompliance
    \/ RebalanceStage
    \/ BeginExecute
    \/ ExecuteCore
    \/ ExecuteShort
    \/ ExecuteReturn
    \/ ForceCheck
    \/ SaveSnapshot
    \/ CloseRead
    \/ ClosePosition
    \/ CloseSettle
    \/ UpdateLeverage
    \/ LeverageSettle
    \/ BeginRestore
    \/ OpenPosition
    \/ RestoreReturn

Spec == Init /\ [][Next]_vars

\* the steps of the single thread of control: everything but the arrival of
\* a signal
Control ==
    \/ RunMainLoop \/ StartCycle \/ ExitLoop \/ SaveState \/ EnterSleep
    \/ Sleep \/ Cleanup \/ GetPortfolioState \/ LoadCycleConfig
    \/ CheckCompliance \/ RebalanceStage \/ BeginExecute \/ ExecuteCore
    \/ ExecuteShort \/ ExecuteReturn \/ ForceCheck \/ SaveSnapshot
    \/ CloseRead \/ ClosePosition \/ CloseSettle \/ UpdateLeverage
    \/ LeverageSettle \/ BeginRestore \/ OpenPosition \/ RestoreReturn

\* the main loop when every call it makes returns: the thread of control
\* always takes its next step; no assumption is made on signals
LiveSpec == Init /\ [][Next]_vars /\ WF_vars(Control)

(***************************************************************************)
(* The decision engine on its own: get_portfolio_state followed by         *)
(* calculate_rebalance_decision of a strategy constructed with any         *)
(* ratio_target, reserve_percent and rebalance_threshold, the values       *)
(* ConfigValidator would reject included.                                  *)
(***************************************************************************)
DecisionRatioTargets == {-200, -100, -50, 0, 10, 50, 100, 200, 1000}

DecisionThresholds == {1, 10, 25, 99}

DecisionReserves == {0, 5, 50}

DecisionConfigs ==
    { [leverage_btc |-> 3, leverage_shorts |-> 3, shorts |-> <<"ZK", "STRK">>,
       ratio_tgt |-> rt, reserve_usd_percent |-> rp, rebalance_threshold |-> th] :
      rt \in DecisionRatioTargets, rp \in DecisionReserves, th \in DecisionThresholds }

DecisionPositions ==
    { Flat,
      [Flat EXCEPT !["BTC"] = 600],
      [Flat EXCEPT !["ZK"] = -15000],
      [Flat EXCEPT !["BTC"] = 600, !["ZK"] = -7500, !["STRK"] = -3000],
      [Flat EXCEPT !["BTC"] = 600, !["ZK"] = -10000, !["STRK"] = -4000],
      [Flat EXCEPT !["BTC"] = 600, !["ZK"] = -8000, !["STRK"] = -4000] }

DecisionNavs == {0, 7, 1200}

DecisionInit ==
    /\ config \in DecisionConfigs
    /\ nav \in DecisionNavs
    /\ vpos \in DecisionPositions
    /\ vlev \in InitialLeverages
    /\ running = FALSE
    /\ pc = "inputs"
    /\ cycle_count = 0
    /\ compliance = <<>>
    /\ lev_read = <<>>
    /\ current_state = EmptyState
    /\ queue = <<>>
    /\ success = TRUE
    /\ plan = <<>>
    /\ branch = "none"
    /\ open_at_close = {}
    /\ close_result = "none"
    /\ lev_result = "none"
    /\ calls = <<>>
    /\ fresult = "none"
    /\ cycle_ok = "none"
    /\ failed_runs = 0
    /\ rerun = FALSE
    /\ portfolio = NoPortfolio
    /\ decision = NoDecision
    /\ exec_prices = <<>>
    /\ orders = <<>>
    /\ exec_result = "none"
    /\ slept = 0
    /\ saves = 0
    /\ cleanups = 0
    /\ sizing = NoSizing
    /\ component = NoComponent
    /\ faults = 0

\* portfolio = get_portfolio_state(); decision =
\* calculate_rebalance_decision(portfolio)
ApplyDecision ==
    /\ pc = "inputs"
    /\ \E posOk \in BOOLEAN, acctOk \in BOOLEAN, midsOk \in BOOLEAN, detOk \in BOOLEAN :
          /\ Inject(Bit(~posOk) + Bit(~acctOk) + Bit(~midsOk) + Bit(~detOk))
          /\ portfolio' = PortfolioState(posOk, acctOk, midsOk, detOk, config.shorts)
    /\ decision' = CalculateRebalanceDecision(portfolio', config.ratio_tgt,
                        config.reserve_usd_percent, config.rebalance_threshold)
    /\ pc' = "decided"
    /\ UNCHANGED <<config, loop, venue, running, cycle_count, compliance, lev_read,
                   current_state, queue, success, plan, branch, open_at_close,
                   close_result, lev_result, calls, fresult, cycle_ok,
                   exec_prices, orders, exec_result, ghost>>

DecisionNext == ApplyDecision

DecisionSpec == DecisionInit /\ [][DecisionNext]_vars

(***************************************************************************)
(* The two size validators on their own: validate_order_size of the order  *)
(* executor and _validate_order_size of the risk manager, applied to a     *)
(* size and then to their own result.                                      *)
(***************************************************************************)
MaxSizeNumerator == 24

\* denominators that put sizes on and between the lot boundaries, down to
\* half a millionth of a coin
SizeDenominators == {1, 2, 3, 20, 200, 2000000}

SizingSizes == {<<n, d>> : n \in 0..MaxSizeNumerator, d \in SizeDenominators}

Validators == {"order_executor", "risk_manager"}

Validated(by, symbol, size) ==
    IF by = "order_executor"
    THEN ExecutorValidateOrderSize(symbol, size)
    ELSE ValidateOrderSize(symbol, size)

SizingInit ==
    /\ config \in {c \in Configs : c.ratio_tgt = 100}
    /\ nav = 0
    /\ vpos = Flat
    /\ vlev = [s \in Symbols |-> 3000]
    /\ running = FALSE
    /\ pc = "sizing"
    /\ cycle_count = 0
    /\ compliance = <<>>
    /\ lev_read = <<>>
    /\ current_state = EmptyState
    /\ queue = <<>>
    /\ success = TRUE
    /\ plan = <<>>
    /\ branch = "none"
    /\ open_at_close = {}
    /\ close_result = "none"
    /\ lev_result = "none"
    /\ calls = <<>>
    /\ fresult = "none"
    /\ cycle_ok = "none"
    /\ failed_runs = 0
    /\ rerun = FALSE
    /\ portfolio = NoPortfolio
    /\ decision = NoDecision
    /\ exec_prices = <<>>
    /\ orders = <<>>
    /\ exec_result = "none"
    /\ slept = 0
    /\ saves = 0
    /\ cleanups = 0
    /\ sizing \in {[NoSizing EXCEPT !.by = b, !.symbol = sym, !.size = z] :
                      b \in Validators, sym \in Symbols, z \in SizingSizes}
    /\ component = NoComponent
    /\ faults = 0

\* is_valid, validated_size, error_msg = validate_order_size(symbol, size)
ApplyValidation ==
    /\ pc = "sizing"
    /\ sizing' = [sizing EXCEPT
                     !.first = Validated(sizing.by, sizing.symbol, sizing.size)]
    /\ pc' = "sized"
    /\ UNCHANGED <<config, venue, running, cycle_count, locals, ghost, slept,
                   saves, cleanups, component, faults>>

\* validate_order_size(symbol, validated_size) of a size found valid
ApplyValidationAgain ==
    /\ pc = "sized"
    /\ sizing.first.ok
    /\ sizing' = [sizing EXCEPT
                     !.again = Validated(sizing.by, sizing.symbol,
                                         <<sizing.first.size, 100>>)]
    /\ pc' = "resized"
    /\ UNCHANGED <<config, venue, running, cycle_count, locals, ghost, slept,
                   saves, cleanups, component, faults>>

SizingNext ==
    \/ ApplyValidation
    \/ ApplyValidationAgain

SizingSpec == SizingInit /\ [][SizingNext]_vars

(***************************************************************************)
(* Components checked on their own.  Standalone gives the variables of the *)
(* trading loop their idle values; rest is what the step of such a         *)
(* component leaves alone.                                                 *)
(***************************************************************************)
Standalone ==
    /\ running = FALSE
    /\ cycle_count = 0
    /\ compliance = <<>>
    /\ lev_read = <<>>
    /\ current_state = EmptyState
    /\ queue = <<>>
    /\ success = TRUE
    /\ plan = <<>>
    /\ branch = "none"
    /\ open_at_close = {}
    /\ close_result = "none"
    /\ lev_result = "none"
    /\ calls = <<>>
    /\ fresult = "none"
    /\ cycle_ok = "none"
    /\ failed_runs = 0
    /\ rerun = FALSE
    /\ portfolio = NoPortfolio
    /\ decision = NoDecision
    /\ exec_prices = <<>>
    /\ orders = <<>>
    /\ exec_result = "none"
    /\ slept = 0
    /\ saves = 0
    /\ cleanups = 0
    /\ sizing = NoSizing
    /\ faults = 0

rest == <<running, current_state, queue, success, plan, branch, open_at_close,
          close_result, lev_result, calls, fresult, cycle_ok, rebalance, ghost,
          slept, saves, cleanups, sizing, faults>>

(***************************************************************************)
(* The configuration of a run: trader.py loads the file at config_path     *)
(* once, in __init__; run_strategy_cycle builds a ConfigManager() of its   *)
(* own in every cycle, which reads the file at the default path as it is   *)
(* then.  The files can be edited while the trader runs.                   *)
(***************************************************************************)
MaxEdits == 1

\* ConfigManager.__init__: config_path = 'config.json'
DefaultConfigPath == "config.json"

ConfigPaths == {DefaultConfigPath, "other.json"}

\* the target parameters the compliance stage takes from a configuration
TargetParameters(c) ==
    [leverage_btc |-> c.leverage_btc, leverage_shorts |-> c.leverage_shorts,
     shorts |-> c.shorts]

\* the state after HyperliquidTrader(config_path): config is the content of
\* the file at config_path
ConfigInit ==
    /\ Standalone
    /\ pc = "config_loop"
    /\ nav \in {1200}
    /\ vpos = [Flat EXCEPT !["BTC"] = 600, !["ZK"] = -7500, !["STRK"] = -3000]
    /\ vlev \in InitialLeverages
    /\ \E files \in [ConfigPaths -> Configs], path \in ConfigPaths :
          /\ config = files[path]
          /\ component = [kind |-> "config", config_path |-> path, files |-> files,
                          edits |-> 0, read |-> config]

\* somebody saves another valid configuration to one of the files
EditConfigFile ==
    /\ pc = "config_loop"
    /\ component.edits < MaxEdits
    /\ \E path \in ConfigPaths, c \in Configs :
          /\ c # component.files[path]
          /\ component' = [component EXCEPT !.files[path] = c, !.edits = @ + 1]
    /\ UNCHANGED <<config, venue, pc, cycle_count, compliance, lev_read, rest>>

\* the compliance stage of one cycle: config = ConfigManager(), then
\* check_leverage_compliance(config.leverage_btc, config.leverage_shorts,
\* config.shorts)
CycleConfigCheck ==
    /\ pc = "config_loop"
    /\ cycle_count < MaxCycles
    /\ cycle_count' = cycle_count + 1
    /\ component' = [component EXCEPT !.read = component.files[DefaultConfigPath]]
    /\ lev_read' = GetCurrentLeverages(TRUE)
    /\ compliance' = CheckLeverageCompliance(lev_read', component'.read.leverage_btc,
                                             component'.read.leverage_shorts,
                                             component'.read.shorts)
    /\ UNCHANGED <<config, venue, pc, rest>>

ConfigNext ==
    \/ EditConfigFile
    \/ CycleConfigCheck

ConfigSpec == ConfigInit /\ [][ConfigNext]_vars

(***************************************************************************)
(* config_validator.py and config_manager.py: the load of a configuration  *)
(* file at startup.  A file is a function from its keys to values; ratios  *)
(* are in hundredths, reserve_usd_percent and rebalance_threshold in       *)
(* percent (0.05 is 5).  The keys not listed here (account_address,        *)
(* secret_key, start_nav, gross) are present and valid.                    *)
(***************************************************************************)
\* numeric_fields and optional_fields: (min_val, max_val) of each key
FieldRanges ==
    [ratio_tgt |-> <<10, 1000>>, ratio_low |-> <<10, 1000>>,
     ratio_high |-> <<10, 1000>>, leverage_btc |-> <<1, 50>>,
     leverage_shorts |-> <<1, 50>>, reserve_usd_percent |-> <<0, 50>>]

RequiredFields ==
    {"ratio_tgt", "ratio_low", "ratio_high", "leverage_btc", "leverage_shorts",
     "shorts"}

\* validate_config: is_valid
ValidateConfig(raw) ==
    /\ RequiredFields \subseteq DOMAIN raw
    /\ \A f \in DOMAIN FieldRanges \cap DOMAIN raw :
          FieldRanges[f][1] <= raw[f] /\ raw[f] <= FieldRanges[f][2]
    /\ "shorts" \in DOMAIN raw => Len(raw.shorts) # 0
    /\ {"ratio_low", "ratio_tgt", "ratio_high"} \subseteq DOMAIN raw =>
          raw.ratio_low <= raw.ratio_tgt /\ raw.ratio_tgt <= raw.ratio_high

\* the properties of ConfigManager the trader reads, with their defaults
ConfigProperties(raw) ==
    [leverage_btc |-> Get(raw, "leverage_btc", 3),
     leverage_shorts |-> Get(raw, "leverage_shorts", 3),
     shorts |-> Get(raw, "shorts", <<>>),
     ratio_tgt |-> Get(raw, "ratio_tgt", 200),
     reserve_usd_percent |-> Get(raw, "reserve_usd_percent", 5),
     rebalance_threshold |-> Get(raw, "rebalance_threshold", 2)]

\* configuration files: the keys every file has, and the optional keys
CoreFiles ==
    { [ratio_tgt |-> rt, ratio_low |-> rl, ratio_high |-> rh, leverage_btc |-> lb,
       leverage_shorts |-> 3, shorts |-> sh] :
      rt \in {-100, 0, 5, 200, 1100}, rl \in {180, 250}, rh \in {150, 220},
      lb \in {0, 3, 51}, sh \in {<<>>, <<"ZK", "STRK">>} }

OptionalKeys ==
    { [reserve_usd_percent |-> r] : r \in {-5, 0, 5, 50, 60, 100} }
    \cup { [rebalance_threshold |-> t] : t \in {-10, 0, 10, 100, 500} }
    \cup { [reserve_usd_percent |-> r, rebalance_threshold |-> t] :
             r \in {0, 5, 100}, t \in {0, 10, 100} }

ConfigFiles ==
    CoreFiles \cup {core @@ opt : core \in CoreFiles, opt \in OptionalKeys}

\* the trader is about to be constructed from a file
LoadInit ==
    /\ Standalone
    /\ pc = "load"
    /\ nav = 1200
    /\ vpos = [Flat EXCEPT !["BTC"] = 600, !["ZK"] = -7500, !["STRK"] = -3000]
    /\ vlev = [s \in Symbols |-> 3000]
    /\ config = ConfigProperties(<<>>)
    /\ \E raw \in ConfigFiles : component = [kind |-> "load", raw |-> raw]

\* HyperliquidTrader.__init__: ConfigManager(config_path) validates and
\* raises, which __init__ turns into sys.exit(1); otherwise the strategy
\* is built from the properties
LoadConfig ==
    /\ pc = "load"
    /\ IF ValidateConfig(component.raw)
       THEN config' = ConfigProperties(component.raw) /\ pc' = "constructed"
       ELSE config' = config /\ pc' = "exit"
    /\ UNCHANGED <<venue, cycle_count, compliance, lev_read, component, rest>>

\* the decision of the first cycle, computed with the loaded parameters
FirstDecision ==
    /\ pc = "constructed"
    /\ cycle_count' = cycle_count + 1
    /\ portfolio' = PortfolioState(TRUE, TRUE, TRUE, TRUE, config.shorts)
    /\ decision' = CalculateRebalanceDecision(portfolio', config.ratio_tgt,
                                              config.reserve_usd_percent,
                                              config.rebalance_threshold)
    /\ pc' = "cycled"
    /\ UNCHANGED <<config, venue, running, compliance, lev_read, current_state,
                   queue, success, plan, branch, open_at_close, close_result,
                   lev_result, calls, fresult, cycle_ok, exec_prices, orders,
                   exec_result, ghost, loop, faults>>

LoadNext ==
    \/ LoadConfig
    \/ FirstDecision

LoadSpec == LoadInit /\ [][LoadNext]_vars

(***************************************************************************)
(* The decision engine and the restore step of the protocol on the same    *)
(* account: the decision is computed, then _save_portfolio_state and       *)
(* _restore_positions are applied to the account as it stands.             *)
(***************************************************************************)
ApplyRestore ==
    /\ pc = "decided"
    /\ current_state' = SavePortfolioState(TRUE, TRUE, TRUE, config.shorts)
    /\ branch' = IF RestoreFromScratch(current_state') THEN "initial" ELSE "proportional"
    /\ plan' = RestorePositions(current_state', config.leverage_btc,
                                config.leverage_shorts)
    /\ pc' = "restored"
    /\ UNCHANGED <<config, loop, venue, running, cycle_count, compliance, lev_read,
                   queue, success, open_at_close, close_result, lev_result, calls,
                   fresult, cycle_ok, rebalance, ghost, faults>>

ReserveNext ==
    \/ ApplyDecision
    \/ ApplyRestore

ReserveSpec == DecisionInit /\ [][ReserveNext]_vars

(***************************************************************************)
(* market_data_provider.py: the price cache and the funding cache of one   *)
(* provider.  Time is in seconds; a cache maps a symbol to the time its    *)
(* value was fetched.  served describes the answer of the last call:       *)
(* whether it came from the cache, and how old each value served was.      *)
(***************************************************************************)
\* what a component checked on its own leaves alone
others == <<config, venue, pc, cycle_count, compliance, lev_read, rest>>

\* self._cache_ttl = 10
CacheTtl == 10

\* the seconds between two calls, and the number of such steps
ClockTick == 4

MaxTicks == 4

\* time.time() at construction is more than the TTL after the epoch, the
\* initial value of _cache_timestamp
ClockStart == CacheTtl

CachedSymbols == {"BTC", "ZK"}

SymbolLists == (SUBSET CachedSymbols) \ {{}}

\* _is_cache_valid
IsCacheValid(c) == c.now - c.cache_timestamp < CacheTtl

Served(call, cached, cache, symbols, now) ==
    [call |-> call, cached |-> cached,
     ages |-> IF cached THEN {now - cache[x] : x \in symbols} ELSE {}]

\* the cache after update(): the fetched symbols carry the time of the fetch
Refreshed(cache, symbols, now) ==
    [x \in DOMAIN cache \cup symbols |-> IF x \in symbols THEN now ELSE cache[x]]

CacheInit ==
    /\ Standalone
    /\ pc = "provider"
    /\ config \in Configs
    /\ nav = 1200
    /\ vpos = Flat
    /\ vlev = [x \in Symbols |-> DefaultLeverage]
    /\ component = [kind |-> "cache", now |-> ClockStart, prices_cache |-> <<>>,
                    funding_cache |-> <<>>, cache_timestamp |-> 0,
                    served |-> Served("none", FALSE, <<>>, {}, 0)]

ClockAdvance ==
    /\ component.kind = "cache"
    /\ component.now < ClockStart + MaxTicks * ClockTick
    /\ component' = [component EXCEPT !.now = @ + ClockTick]
    /\ UNCHANGED others

\* get_prices(symbols); midsOk is FALSE when all_mids raises
CacheGetPrices ==
    /\ component.kind = "cache"
    /\ \E symbols \in SymbolLists, midsOk \in BOOLEAN :
          LET c == component
          IN  IF /\ IsCacheValid(c)
                 /\ c.prices_cache # <<>>
                 /\ symbols \subseteq DOMAIN c.prices_cache
              THEN component' = [c EXCEPT !.served =
                       Served("prices", TRUE, c.prices_cache, symbols, c.now)]
              ELSE IF midsOk
              THEN component' = [c EXCEPT
                       !.prices_cache = Refreshed(@, symbols, c.now),
                       !.cache_timestamp = c.now,
                       !.served = Served("prices", FALSE, <<>>, symbols, c.now)]
              ELSE component' = [c EXCEPT !.served =
                       Served("prices", FALSE, <<>>, symbols, c.now)]
    /\ UNCHANGED others

\* get_funding_rates(symbols): a symbol whose funding_history raises is
\* cached with 0.0 like one that answered
CacheGetFundingRates ==
    /\ component.kind = "cache"
    /\ \E symbols \in SymbolLists :
          LET c == component
          IN  IF /\ IsCacheValid(c)
                 /\ c.funding_cache # <<>>
                 /\ symbols \subseteq DOMAIN c.funding_cache
              THEN component' = [c EXCEPT !.served =
                       Served("funding", TRUE, c.funding_cache, symbols, c.now)]
              ELSE component' = [c EXCEPT
                       !.funding_cache = Refreshed(@, symbols, c.now),
                       !.served = Served("funding", FALSE, <<>>, symbols, c.now)]
    /\ UNCHANGED others

CacheNext ==
    \/ ClockAdvance
    \/ CacheGetPrices
    \/ CacheGetFundingRates

CacheSpec == CacheInit /\ [][CacheNext]_vars

(***************************************************************************)
(* network_utils.py: CircuitBreaker around one function.  A call is one    *)
(* step; the wrapped function returns, raises an exception of the class    *)
(* expected_exception, or raises another exception, which the wrapper lets *)
(* through without _on_success or _on_failure.  last_failure_time is -1    *)
(* for None.  last describes the last call: the state it found, the time   *)
(* since the last failure, whether the function was invoked, the outcome.  *)
(***************************************************************************)
\* recovery_timeout: float = 60.0
RecoveryTimeout == 60

\* the seconds between two calls, and the number of such steps
BreakerTick == 30

MaxBreakerTicks == 4

FailureThresholds == {1, 2}

\* expected_exception: the default, or a subclass such as ConnectionError
ExpectedExceptions == {"Exception", "ConnectionError"}

Outcomes(expected) ==
    IF expected = "Exception" THEN {"success", "expected"}
    ELSE {"success", "expected", "unexpected"}

NoCall == [before |-> "none", elapsed |-> 0, invoked |-> FALSE, outcome |-> "none"]

BreakerInit ==
    /\ Standalone
    /\ pc = "breaker"
    /\ config \in Configs
    /\ nav = 1200
    /\ vpos = Flat
    /\ vlev = [x \in Symbols |-> DefaultLeverage]
    /\ \E threshold \in FailureThresholds, expected \in ExpectedExceptions :
          component = [kind |-> "breaker", now |-> 0,
                       failure_threshold |-> threshold,
                       expected_exception |-> expected,
                       failure_count |-> 0, last_failure_time |-> -1,
                       state |-> "CLOSED", last |-> NoCall]

BreakerClock ==
    /\ component.kind = "breaker"
    /\ component.now < MaxBreakerTicks * BreakerTick
    /\ component' = [component EXCEPT !.now = @ + BreakerTick]
    /\ UNCHANGED others

\* _should_attempt_reset
ShouldAttemptReset(b) ==
    b.last_failure_time # -1 /\ b.now - b.last_failure_time >= RecoveryTimeout

\* _on_success
OnSuccess(b) == [b EXCEPT !.failure_count = 0, !.state = "CLOSED"]

\* _on_failure
OnFailure(b) ==
    [b EXCEPT !.failure_count = @ + 1,
              !.last_failure_time = b.now,
              !.state = IF b.failure_count + 1 >= b.failure_threshold
                        THEN "OPEN" ELSE @]

\* wrapper(*args, **kwargs)
BreakerCall ==
    /\ component.kind = "breaker"
    /\ \E outcome \in Outcomes(component.expected_exception) :
          LET b       == component
              elapsed == IF b.last_failure_time = -1 THEN 0
                         ELSE b.now - b.last_failure_time
              seen(invoked, result) ==
                  [before |-> b.state, elapsed |-> elapsed, invoked |-> invoked,
                   outcome |-> result]
              gated   == IF b.state = "OPEN" /\ ShouldAttemptReset(b)
                         THEN [b EXCEPT !.state = "HALF_OPEN"]
                         ELSE b
          IN  IF b.state = "OPEN" /\ ~ShouldAttemptReset(b)
              THEN component' = [b EXCEPT !.last = seen(FALSE, "rejected")]
              ELSE component' =
                     [(CASE outcome = "success" -> OnSuccess(gated)
                         [] outcome = "expected" -> OnFailure(gated)
                         [] OTHER -> gated)
                      EXCEPT !.last = seen(TRUE, outcome)]
    /\ UNCHANGED others

BreakerNext ==
    \/ BreakerClock
    \/ BreakerCall

BreakerSpec == BreakerInit /\ [][BreakerNext]_vars

(***************************************************************************)
(* telegram_bot.py: the handlers of /status, /closeall and /starttrader.   *)
(* telegram_chat_id is "" when the configuration has none.  handled        *)
(* describes the last message handled: its command, the chat it came       *)
(* from, the market_close calls its handler issued and whether it started  *)
(* a trader process.                                                       *)
(***************************************************************************)
MaxMessages == 3

TelegramChats == {"1001", "2002"}

ConfiguredChatIds == {"", "1001"}

\* is_authorized
IsAuthorized(chat) ==
    IF component.telegram_chat_id = "" THEN TRUE
    ELSE chat = component.telegram_chat_id

Handled(command, chat, closes, launched) ==
    [command |-> command, chat |-> chat, closes |-> closes, launched |-> launched]

TelegramInit ==
    /\ Standalone
    /\ pc = "polling"
    /\ config \in Configs
    /\ nav = 1200
    /\ vpos \in InitialPositions
    /\ vlev = [x \in Symbols |-> DefaultLeverage]
    /\ \E id \in ConfiguredChatIds :
          component = [kind |-> "telegram", telegram_chat_id |-> id,
                       trader_process |-> "none", messages |-> 0,
                       answer |-> "none",
                       handled |-> Handled("none", "", 0, FALSE)]

\* status(message)
TelegramStatus ==
    /\ component.kind = "telegram"
    /\ component.messages < MaxMessages
    /\ \E chat \in TelegramChats :
          component' = [component EXCEPT
              !.messages = @ + 1,
              !.answer = IF IsAuthorized(chat) THEN "state" ELSE "no_access",
              !.handled = Handled("status", chat, 0, FALSE)]
    /\ UNCHANGED others

\* closeall(message): the position read, then market_close for every
\* listed position; the first n calls return and close their position, the
\* call after them, if any, raises and ends the loop
TelegramCloseAll ==
    /\ component.kind = "telegram"
    /\ component.messages < MaxMessages
    /\ \E chat \in TelegramChats, readOk \in BOOLEAN, n \in 0..Len(AssetPositions) :
          LET issued == IF n < Len(AssetPositions) THEN n + 1 ELSE n
          IN  IF ~readOk
              THEN /\ n = 0
                   /\ component' = [component EXCEPT
                          !.messages = @ + 1, !.answer = "error",
                          !.handled = Handled("closeall", chat, 0, FALSE)]
                   /\ UNCHANGED vpos
              ELSE /\ component' = [component EXCEPT
                          !.messages = @ + 1,
                          !.answer = IF n < Len(AssetPositions) THEN "error"
                                     ELSE IF n = 0 THEN "nothing_open"
                                     ELSE "closed",
                          !.handled = Handled("closeall", chat, issued, FALSE)]
                   /\ vpos' = [x \in Symbols |->
                                  IF x \in {AssetPositions[i] : i \in 1..n}
                                  THEN 0 ELSE vpos[x]]
    /\ UNCHANGED <<config, nav, vlev, pc, cycle_count, compliance, lev_read, rest>>

\* starttrader(message): subprocess.Popen(['python3', 'main.py']) unless a
\* trader started before is still running
TelegramStartTrader ==
    /\ component.kind = "telegram"
    /\ component.messages < MaxMessages
    /\ \E chat \in TelegramChats, popenOk \in BOOLEAN :
          IF component.trader_process = "running"
          THEN /\ popenOk
               /\ component' = [component EXCEPT
                      !.messages = @ + 1, !.answer = "already_running",
                      !.handled = Handled("starttrader", chat, 0, FALSE)]
          ELSE component' = [component EXCEPT
                      !.messages = @ + 1,
                      !.answer = IF popenOk THEN "started" ELSE "error",
                      !.trader_process = IF popenOk THEN "running" ELSE @,
                      !.handled = Handled("starttrader", chat, 0, popenOk)]
    /\ UNCHANGED others

\* the trader process ends: trader_process.poll() is no longer None
TraderProcessExits ==
    /\ component.kind = "telegram"
    /\ component.trader_process = "running"
    /\ component' = [component EXCEPT !.trader_process = "exited"]
    /\ UNCHANGED others

TelegramNext ==
    \/ TelegramStatus
    \/ TelegramCloseAll
    \/ TelegramStartTrader
    \/ TraderProcessExits

TelegramSpec == TelegramInit /\ [][TelegramNext]_vars

(***************************************************************************)
(* Vocabulary of the properties of the compliance protocol                 *)
(***************************************************************************)
Idx == 1..Len(calls)

\* the phase a logged call belongs to
Phase(op) ==
    CASE op = "check" -> 0
      [] op \in {"snapshot", "provider", "snapshot_prices"} -> 1
      [] op \in {"positions", "close"} -> 2
      [] op = "lev" -> 3
      [] OTHER -> 4

CallsTo(op, sym) == {i \in Idx : calls[i].op = op /\ calls[i].sym = sym}

Issued(op) == \E i \in Idx : calls[i].op = op

\* calls whose failure makes the step that issued them return failure
StepCalls == {"snapshot", "provider", "positions", "close", "lev", "open",
              "open_skipped"}

FailedAt(i) == calls[i].op \in StepCalls /\ ~calls[i].ok

\* the destructive calls of the protocol
Destructive == {"close", "lev", "open"}

\* the leverage the configuration asks for, per tracked symbol
RequiredLeverage(s) ==
    IF s = "BTC" THEN config.leverage_btc ELSE config.leverage_shorts

(***************************************************************************)
(* C1.  Within a protocol run no update_leverage call is issued while a    *)
(* position is still open on the venue.                                    *)
(***************************************************************************)
C1_NoLeverageUpdateWhilePositionOpen ==
    \A i \in Idx : calls[i].op = "lev" => ~calls[i].held

FoundCompliant ==
    /\ Len(calls) = 1
    /\ calls[1].op = "check"
    /\ calls[1].val = 0

AllStepsSucceeded ==
    /\ \A i \in Idx : ~FailedAt(i)
    /\ \E i \in Idx : calls[i].op = "snapshot"
    /\ \E i \in Idx : calls[i].op = "positions"
    /\ \A s \in open_at_close : CallsTo("close", s) # {}
    /\ \A s \in Tracked(config.shorts) : CallsTo("lev", s) # {}
    /\ branch # "none"

C4_NoRunAfterFailedRun ==
    /\ fresult = "FAILED" => cycle_ok = "failed"
    /\ ~rerun

(***************************************************************************)
(* C5.  When a read of the snapshot step fails (the account read, or the   *)
(* price read that values the positions), the run issues no close, no      *)
(* leverage update and no open, and it does not end DONE.                  *)
(***************************************************************************)
SnapshotReadFailed ==
    \E i \in Idx : Phase(calls[i].op) = 1 /\ ~calls[i].ok

C5_SnapshotFailureAborts ==
    SnapshotReadFailed =>
        /\ \A i \in Idx : calls[i].op \notin Destructive
        /\ fresult # "DONE"

(***************************************************************************)
(* C6.  Original statement: once CLOSE_ALL has returned, every position    *)
(* that was open when it started got exactly one close call, and the step  *)
(* returned failure exactly when one of those close calls failed.          *)
(***************************************************************************)
OneClosePerOpenPosition ==
    /\ \A s \in open_at_close : Cardinality(CallsTo("close", s)) = 1
    /\ \A i \in Idx : calls[i].op = "close" => calls[i].sym \in open_at_close

SomeCloseFailed == \E i \in Idx : calls[i].op = "close" /\ ~calls[i].ok

C6_CloseAllBestEffort ==
    close_result # "none" =>
        /\ OneClosePerOpenPosition
        /\ close_result = "failed" <=> SomeCloseFailed

(***************************************************************************)
(* C6, amended.  When the step's own position read succeeded, every        *)
(* position open at that moment got exactly one close call and the step    *)
(* returned failure exactly when one of those calls failed; when that read *)
(* failed, the step returned failure without issuing any close call.       *)
(***************************************************************************)
PositionsReadOk == \E i \in Idx : calls[i].op = "positions" /\ calls[i].ok

C6_CloseAllBestEffortAfterRead ==
    close_result # "none" =>
        IF PositionsReadOk
        THEN /\ OneClosePerOpenPosition
             /\ close_result = "failed" <=> SomeCloseFailed
        ELSE /\ close_result = "failed"
             /\ ~Issued("close")

\* a close failed and a later position was still sent its close call
C6_Witness ==
    /\ close_result = "failed"
    /\ \E i, j \in Idx :
          /\ i < j
          /\ calls[i].op = "close" /\ ~calls[i].ok
          /\ calls[j].op = "close"

(***************************************************************************)
(* C7.  Once SET_LEVERAGE has returned, every tracked symbol got exactly   *)
(* one update_leverage call, with leverage_btc for BTC and leverage_shorts *)
(* for a hedge symbol, no other symbol got one, and the step returned      *)
(* success exactly when every update succeeded.                            *)
(***************************************************************************)
C7_OneLeverageUpdatePerSymbol ==
    lev_result # "none" =>
        /\ \A s \in Tracked(config.shorts) :
              /\ Cardinality(CallsTo("lev", s)) = 1
              /\ \A i \in CallsTo("lev", s) : calls[i].val = RequiredLeverage(s)
        /\ \A i \in Idx : calls[i].op = "lev" => calls[i].sym \in Tracked(config.shorts)
        /\ lev_result = "ok" <=> (\A i \in Idx : calls[i].op = "lev" => calls[i].ok)

\* an update failed and a later symbol was still updated
C7_Witness ==
    /\ lev_result = "failed"
    /\ \E i, j \in Idx :
          /\ i < j
          /\ calls[i].op = "lev" /\ ~calls[i].ok
          /\ calls[j].op = "lev"

(***************************************************************************)
(* C8.  The compliance check reports a tracked symbol compliant exactly    *)
(* when the gateway returned a leverage for it that is less than 0.01 away *)
(* from the required one.                                                  *)
(***************************************************************************)
C8_CompliantIffReadWithinTolerance ==
    \A s \in DOMAIN compliance :
        compliance[s] <=>
            /\ s \in DOMAIN lev_read
            /\ Abs(lev_read[s] - RequiredLeverage(s) * 1000) < ComplianceTolerance

(***************************************************************************)
(* C9.  When REOPEN creates positions from scratch it requests one BTC     *)
(* long from 2/3 of the tradable NAV, one short per configured hedge       *)
(* symbol from an equal share of 1/3 of it, and nothing for any other      *)
(* symbol.                                                                 *)
(***************************************************************************)
PlanFor(s) == {k \in 1..Len(plan) : plan[k].sym = s}

C9_InitialPositionsForConfiguredHedges ==
    (branch = "initial" /\ plan # <<>>) =>
        LET tradable == AvailableForTrading(current_state.nav)
            n        == Len(config.shorts)
        IN  /\ Cardinality(PlanFor("BTC")) = 1
            /\ \A k \in PlanFor("BTC") :
                  /\ plan[k].is_buy
                  /\ plan[k].value = Scale(tradable, 2 * config.leverage_btc, 3)
            /\ \A s \in Range(config.shorts) :
                  /\ Cardinality(PlanFor(s)) = 1
                  /\ \A k \in PlanFor(s) :
                        /\ ~plan[k].is_buy
                        /\ plan[k].value = Scale(tradable, config.leverage_shorts, 3 * n)
            /\ \A k \in 1..Len(plan) : plan[k].sym \in Tracked(config.shorts)

(***************************************************************************)
(* C10.  REOPEN creates positions from scratch exactly when the snapshot   *)
(* held no value (core value + hedge value = 0); a snapshot with positive  *)
(* total value is restored proportionally.                                 *)
(***************************************************************************)
C10_ScratchOnlyWhenSnapshotEmpty ==
    branch # "none" =>
        (branch = "initial" <=>
            current_state.total_btc_value + current_state.total_shorts_value = 0)

(***************************************************************************)
(* C11.  A proportional restore keeps the proportions of the snapshot: the *)
(* core request is for tradable * core_value / (core_value + hedge_value),  *)
(* the hedge requests add up to tradable * hedge_value / (core_value +     *)
(* hedge_value), whatever the configured ratio_target is.                  *)
(***************************************************************************)
HedgeRequests == {k \in 1..Len(plan) : plan[k].sym # "BTC"}

SnapshotCore == current_state.total_btc_value

SnapshotHedge == current_state.total_shorts_value

CoreTarget ==
    Scale(AvailableForTrading(current_state.nav), SnapshotCore,
          SnapshotCore + SnapshotHedge)

HedgeTarget ==
    Scale(AvailableForTrading(current_state.nav), SnapshotHedge,
          SnapshotCore + SnapshotHedge)

C11_RestoreKeepsSnapshotProportions ==
    branch = "proportional" =>
        /\ Exceeds(CoreTarget, MinOpenUsd) <=> PlanFor("BTC") # {}
        /\ \A k \in PlanFor("BTC") : plan[k].is_buy /\ plan[k].value = CoreTarget
        /\ \A k \in HedgeRequests :
              Scale(plan[k].value, Cardinality(HedgeRequests), 1) = HedgeTarget

\* a restore of a 2:1 snapshot under a configured ratio of 1:1
C11_Witness ==
    /\ branch = "proportional"
    /\ PlanFor("BTC") # {}
    /\ HedgeRequests # {}
    /\ SnapshotCore = 2 * SnapshotHedge
    /\ config.ratio_tgt = 100
    /\ \E i \in Idx : calls[i].op = "open" /\ calls[i].sym = "BTC"

(***************************************************************************)
(* C12.  In a proportional restore the hedge allocation goes in equal      *)
(* shares to exactly the configured hedge symbols that were open in the    *)
(* snapshot, each as one short, and no open request is made for a symbol   *)
(* that is not a configured hedge symbol.                                  *)
(***************************************************************************)
SnapshotHedges == Range(current_state.positions) \cap Range(config.shorts)

C12_HedgeSplitAmongSnapshotHedges ==
    branch = "proportional" =>
        /\ \A k \in 1..Len(plan) : plan[k].sym \in Tracked(config.shorts)
        /\ \A k \in HedgeRequests :
              /\ plan[k].sym \in SnapshotHedges
              /\ ~plan[k].is_buy
              /\ plan[k].value =
                     Scale(HedgeTarget, 1, Cardinality(SnapshotHedges))
        /\ Exceeds(HedgeTarget, MinOpenUsd) =>
              \A s \in SnapshotHedges : Cardinality(PlanFor(s)) = 1

(***************************************************************************)
(* Vocabulary of the properties of the decision engine                     *)
(***************************************************************************)
Threshold == Frac(config.rebalance_threshold, 100)

\* |position_ratio - ratio_target| / ratio_target, for ratio_target > 0
Deviation ==
    Frac(Abs(100 * portfolio.position_ratio[1]
             - config.ratio_tgt * portfolio.position_ratio[2]),
         config.ratio_tgt * portfolio.position_ratio[2])

Tradable == Frac(portfolio.nav * (100 - config.reserve_usd_percent), 100)

\* the values ConfigValidator accepts for ratio_tgt, and a rebalance
\* threshold strictly between 0 and 1
ValidTargets ==
    /\ config.ratio_tgt >= 10 /\ config.ratio_tgt <= 1000
    /\ config.rebalance_threshold > 0 /\ config.rebalance_threshold < 100

(***************************************************************************)
(* C13.  The decision has should_rebalance exactly when its                *)
(* deviation_percent exceeds rebalance_threshold; a deviation equal to the *)
(* threshold does not rebalance.                                           *)
(***************************************************************************)
C13_RebalanceIffDeviationExceedsThreshold ==
    decision.status = "returned" =>
        /\ decision.should_rebalance <=> FGt(decision.deviation_percent, Threshold)
        /\ config.ratio_tgt > 0 => decision.deviation_percent = Deviation
        /\ decision.deviation_percent = Threshold => ~decision.should_rebalance

C13_Witness ==
    /\ pc = "decided"
    /\ decision.status = "returned"
    /\ config.ratio_tgt > 0
    /\ Deviation = Threshold
    /\ ~decision.should_rebalance

(***************************************************************************)
(* C14.  For ratio_target > 0 the two targets add up to the tradable NAV,  *)
(* nav * (1 - reserve_percent), and stand in the ratio ratio_target : 1.   *)
(***************************************************************************)
C14_TargetsSumToTradable ==
    (decision.status = "returned" /\ config.ratio_tgt > 0) =>
        /\ FAdd(decision.btc_target_usd, decision.shorts_target_usd) = Tradable
        /\ decision.btc_target_usd[1] * decision.shorts_target_usd[2] * 100
              = decision.shorts_target_usd[1] * decision.btc_target_usd[2]
                  * config.ratio_tgt

C14_Witness ==
    /\ pc = "decided"
    /\ decision.status = "returned"
    /\ config.ratio_tgt = 50
    /\ config.reserve_usd_percent = 5
    /\ portfolio.nav = 1200
    /\ decision.btc_target_usd = <<380, 1>>
    /\ decision.shorts_target_usd = <<760, 1>>

(***************************************************************************)
(* C15.  With no hedge margin the position ratio is the sentinel 999 and   *)
(* the decision is to rebalance, for every valid ratio_target and          *)
(* rebalance_threshold.                                                    *)
(***************************************************************************)
C15_NoHedgeMarginAlwaysRebalances ==
    (decision.status = "returned" /\ portfolio.shorts_margin[1] = 0) =>
        /\ portfolio.position_ratio = <<999, 1>>
        /\ decision.current_ratio = <<999, 1>>
        /\ ValidTargets => decision.should_rebalance

C15_Witness ==
    /\ pc = "decided"
    /\ decision.status = "returned"
    /\ portfolio.shorts_margin[1] = 0
    /\ portfolio.btc_margin[1] > 0
    /\ config.ratio_tgt = 1000
    /\ config.rebalance_threshold = 99
    /\ decision.should_rebalance

(***************************************************************************)
(* C16.  For ratio_target <= 0 the decision engine returns a decision with *)
(* deviation_percent 0 and should_rebalance false.                         *)
(***************************************************************************)
C16_NonPositiveTargetNeverRebalances ==
    (pc = "decided" /\ config.ratio_tgt <= 0) =>
        /\ decision.status = "returned"
        /\ decision.deviation_percent = <<0, 1>>
        /\ ~decision.should_rebalance

(***************************************************************************)
(* Vocabulary of the properties of execute_rebalance                       *)
(***************************************************************************)
ExecutionDone == exec_result # "none"

OrdersFor(s) == {k \in 1..Len(orders) : orders[k].sym = s}

CoreDiff == FSub(decision.btc_target_usd, <<decision.btc_current_usd, 100>>)

ShortsDiff == FSub(decision.shorts_target_usd, <<decision.shorts_current_usd, 100>>)

TargetPerSymbol ==
    Frac(decision.shorts_target_usd[1],
         decision.shorts_target_usd[2] * Len(config.shorts))

\* what the execution took the hedge symbol s to be worth, in cents
CurrentUsd(s) == Abs(portfolio.shorts_positions[s]) * Get(exec_prices, s, 0)

SymbolDiff(s) == FSub(TargetPerSymbol, <<CurrentUsd(s), 100>>)

Priced(s) == Get(exec_prices, s, 0) > 0

\* |d| < k dollars
Below(d, k) == FGt(<<k, 1>>, FAbs(d))

(***************************************************************************)
(* C17.  With a core price at hand, execute_rebalance places no core order *)
(* when |core_target - core_current| < $5 and otherwise exactly one, for   *)
(* |diff| dollars, a buy when diff > 0 and a sell when diff < 0.           *)
(***************************************************************************)
C17_CoreOrderUnlessBelowFiveDollars ==
    (ExecutionDone /\ Priced("BTC")) =>
        IF Below(CoreDiff, 5)
        THEN OrdersFor("BTC") = {}
        ELSE /\ Cardinality(OrdersFor("BTC")) = 1
             /\ \A k \in OrdersFor("BTC") :
                   /\ orders[k].kind = "order"
                   /\ orders[k].notional = FAbs(CoreDiff)
                   /\ orders[k].is_buy <=> CoreDiff[1] > 0

(***************************************************************************)
(* C18.  For every configured hedge symbol with a price at hand,           *)
(* execute_rebalance places no order when |target_per_symbol - current| <  *)
(* $2 and otherwise exactly one, a sell when diff > 0 and a buy when       *)
(* diff < 0, whatever the aggregate hedge difference is.                   *)
(***************************************************************************)
C18_HedgeOrderUnlessBelowTwoDollars ==
    ExecutionDone =>
        \A s \in Range(config.shorts) :
            Priced(s) =>
                IF Below(SymbolDiff(s), 2)
                THEN OrdersFor(s) = {}
                ELSE /\ Cardinality(OrdersFor(s)) = 1
                     /\ \A k \in OrdersFor(s) :
                           /\ orders[k].notional = FAbs(SymbolDiff(s))
                           /\ ~orders[k].is_buy <=> SymbolDiff(s)[1] > 0

(***************************************************************************)
(* C19.  Every hedge order aims at hedge_target / (number of configured    *)
(* hedge symbols), whatever is held; from a flat account whose targets     *)
(* exceed the order minimums the execution hands over one core buy and one *)
(* sell per configured hedge symbol, the sells of equal notional.          *)
(***************************************************************************)
FlatPortfolio ==
    /\ portfolio.btc_position = 0
    /\ \A s \in Range(config.shorts) : portfolio.shorts_positions[s] = 0

TargetsAboveMinimums ==
    /\ FGt(decision.btc_target_usd, <<MinCoreDiffUsd, 1>>)
    /\ FGt(decision.shorts_target_usd, <<MinShortsDiffUsd, 1>>)
    /\ FGt(TargetPerSymbol, <<MinSymbolDiffUsd, 1>>)

C19_HedgeTargetSplitEqually ==
    /\ \A k \in 1..Len(orders) :
          orders[k].sym # "BTC" => orders[k].target = TargetPerSymbol
    /\ (ExecutionDone /\ FlatPortfolio /\ TargetsAboveMinimums
          /\ \A s \in Tracked(config.shorts) : Priced(s)) =>
          /\ Len(orders) = 1 + Len(config.shorts)
          /\ orders[1].sym = "BTC" /\ orders[1].is_buy
          /\ orders[1].notional = decision.btc_target_usd
          /\ \A s \in Range(config.shorts) :
                /\ Cardinality(OrdersFor(s)) = 1
                /\ \A k \in OrdersFor(s) :
                      /\ ~orders[k].is_buy
                      /\ orders[k].notional = TargetPerSymbol

C19_Witness ==
    /\ ExecutionDone
    /\ FlatPortfolio
    /\ AssetPositions = <<"BTC", "ZK", "STRK">>
    /\ Len(orders) = 3
    /\ \A k \in 1..Len(orders) : orders[k].ok
    /\ orders[2].notional = <<190, 1>>
    /\ orders[3].notional = <<190, 1>>

(***************************************************************************)
(* C20.  The orders of one execution are independent: every order the      *)
(* decision calls for is handed over whether or not an earlier one failed, *)
(* the execution reports failure exactly when some order failed or the     *)
(* core could not be priced, and no second order is placed for a symbol    *)
(* (nothing is rolled back).                                               *)
(***************************************************************************)
CoreDue == FGt(FAbs(CoreDiff), <<MinCoreDiffUsd, 1>>)

HedgeDue(s) ==
    /\ FGt(FAbs(ShortsDiff), <<MinShortsDiffUsd, 1>>)
    /\ Priced(s)
    /\ FGt(FAbs(SymbolDiff(s)), <<MinSymbolDiffUsd, 1>>)

Normalized(sym, size) ==
    /\ sym \in DOMAIN AssetMeta
    /\ (size * MillionthsPerUnit) % Pow10(6 - AssetMeta[sym].szDecimals) = 0
    /\ size * MillionthsPerUnit >= AssetMeta[sym].minSz

\* the size execute_rebalance asked place_market_order for in entry k
RequestedSize(k) ==
    Frac(orders[k].notional[1], orders[k].notional[2] * exec_prices[orders[k].sym])

Placed == {k \in 1..Len(orders) : orders[k].kind = "order"}

GatewaySizesValidated ==
    /\ \A k \in Placed :
          LET v == ExecutorValidateOrderSize(orders[k].sym, RequestedSize(k))
          IN  /\ orders[k].sent <=> v.ok
              /\ orders[k].sent => (orders[k].size = v.size
                                     /\ Normalized(orders[k].sym, orders[k].size))
              /\ orders[k].ok => orders[k].sent
    /\ \A i \in Idx :
          calls[i].op = "open" => Normalized(calls[i].sym, calls[i].val)
    /\ ExecutionDone =>
          /\ CoreDue <=> OrdersFor("BTC") # {}
          /\ \A s \in Range(config.shorts) : HedgeDue(s) <=> OrdersFor(s) # {}
    /\ (fresult # "none" /\ plan # <<>>) =>
          \A j \in 1..Len(plan) :
              \E i \in Idx : /\ calls[i].sym = plan[j].sym
                             /\ calls[i].op \in {"open", "open_skipped"}

\* a step that logs an order which was not sent leaves every position alone
UnsentOrderMovesNothing ==
    /\ (Len(orders') = Len(orders) + 1 /\ ~orders'[Len(orders')].sent)
           => vpos' = vpos
    /\ (Len(calls') > Len(calls) /\ calls'[Len(calls')].op = "open_skipped")
           => vpos' = vpos

C21_OnlyValidatedSizesReachGateway ==
    [](GatewaySizesValidated) /\ [][UnsentOrderMovesNothing]_vars

\* the restore skipped ETH, whose size failed validation, and went on to
\* open ZK with a whole number of coins
C21_Witness ==
    \E i, j \in Idx :
        /\ i < j
        /\ calls[i].op = "open_skipped" /\ calls[i].sym = "ETH"
        /\ calls[i - 1].op = "open_price" /\ calls[i - 1].ok
        /\ calls[j].op = "open" /\ calls[j].sym = "ZK" /\ calls[j].ok
        /\ vpos["ETH"] = 0
        /\ vpos["ZK"] = -calls[j].val

(***************************************************************************)
(* C22.  Order sizing is idempotent: when a validator accepts a size and   *)
(* returns s1, the same validator accepts s1 and returns s1 unchanged.     *)
(***************************************************************************)
C22_SizingIsIdempotent ==
    pc = "resized" =>
        /\ sizing.again.ok
        /\ sizing.again.size = sizing.first.size

\* a third of a BTC is cut to 0.33 and stays 0.33; 2.5 ZK, a tie, goes to 2
C22_Witness ==
    /\ pc = "resized"
    /\ \/ /\ sizing.symbol = "BTC" /\ sizing.size = <<1, 3>>
          /\ sizing.first.size = 33 /\ sizing.again.size = 33
       \/ /\ sizing.symbol = "ZK" /\ sizing.size = <<5, 2>>
          /\ sizing.first.size = 200 /\ sizing.again.size = 200

(***************************************************************************)
(* C23.  In a cycle whose leverage check found a non-compliant symbol,     *)
(* force_leverage_compliance is run and the cycle returns its result       *)
(* without reaching the rebalance stage: no decision is computed and no    *)
(* rebalance order is placed, whether the reset ended DONE or FAILED.      *)
(***************************************************************************)
RebalanceStagePcs == {"decide", "execute", "exec_core", "exec_shorts"}

C23_NonCompliantCycleSkipsRebalance ==
    NonCompliant(compliance) # {} =>
        /\ pc \notin RebalanceStagePcs
        /\ decision = NoDecision
        /\ orders = <<>>
        /\ exec_result = "none"
        /\ cycle_ok # "none" =>
              /\ fresult \in {"DONE", "FAILED"}
              /\ cycle_ok = "ok" <=> fresult = "DONE"

\* a reset that closed, set the leverages and reopened, after which the
\* cycle returned without a decision
C23_Witness ==
    /\ NonCompliant(compliance) # {}
    /\ pc = "save_state"
    /\ fresult = "DONE"
    /\ Issued("close") /\ Issued("lev") /\ Issued("open")
    /\ decision = NoDecision
    /\ orders = <<>>

(***************************************************************************)
(* C24.  A failed cycle does not end the main loop: the loop is left only  *)
(* with the run flag cleared, and at the top of the loop with the flag set *)
(* the next cycle starts whatever the result of the previous one.  The new *)
(* cycle starts with none of the previous cycle's locals, and its          *)
(* portfolio is read from the venue as it is then.                         *)
(***************************************************************************)
CycleLocalsFresh ==
    /\ compliance = <<>> /\ lev_read = <<>> /\ current_state = EmptyState
    /\ queue = <<>> /\ success /\ plan = <<>> /\ branch = "none"
    /\ open_at_close = {} /\ close_result = "none" /\ lev_result = "none"
    /\ calls = <<>> /\ fresult = "none" /\ cycle_ok = "none"
    /\ portfolio = NoPortfolio /\ decision = NoDecision
    /\ exec_prices = <<>> /\ orders = <<>> /\ exec_result = "none"

NextTickStartsCycle ==
    /\ pc = "loop_top" /\ running /\ cycle_count < MaxCycles => ENABLED StartCycle
    /\ pc = "get_portfolio" => CycleLocalsFresh

LoopLeftOnlyWhenStopped ==
    /\ pc' = "cleanup" /\ pc # "cleanup" => pc = "loop_top" /\ ~running
    /\ pc \in {"save_state", "sleep", "sleeping"} =>
          pc' \in {"save_state", "sleep", "sleeping", "loop_top"}
    /\ pc = "get_portfolio" /\ pc' # pc =>
          \E posOk \in BOOLEAN, acctOk \in BOOLEAN, midsOk \in BOOLEAN,
             detOk \in BOOLEAN :
             portfolio' = PortfolioState(posOk, acctOk, midsOk, detOk, config.shorts)

C24_FailedCycleDoesNotStopLoop ==
    [](NextTickStartsCycle) /\ [][LoopLeftOnlyWhenStopped]_vars

\* a second cycle is running after the first one failed
C24_Witness ==
    /\ cycle_count = 2
    /\ failed_runs > 0
    /\ pc = "load_config"
    /\ running

(***************************************************************************)
(* C25.  A cycle whose leverage-compliance stage raised (the configuration *)
(* read threw, so that no compliance map was obtained) is reported as a    *)
(* failed cycle and places no rebalance order.                             *)
(***************************************************************************)
ComplianceStageRaised ==
    /\ compliance = <<>>
    /\ pc \in RebalanceStagePcs \cup {"save_state"}

C25_ComplianceRaiseFailsCycle ==
    ComplianceStageRaised =>
        /\ orders = <<>>
        /\ cycle_ok # "none" => cycle_ok = "failed"

(***************************************************************************)
(* C26.  get_portfolio_state fails closed: a PortfolioState handed to the  *)
(* cycle is the venue's state, never one with zero or empty values put in  *)
(* place of a read that failed, so that no decision is computed from a     *)
(* failed read.                                                            *)
(***************************************************************************)
SnapshotInUse == pc \in {"load_config", "check", "decide"}

C26_SnapshotFailsClosed ==
    SnapshotInUse =>
        portfolio = PortfolioState(TRUE, TRUE, TRUE, TRUE, config.shorts)

(***************************************************************************)
(* C27.  Once the stop signal has cleared the run flag the flag stays      *)
(* cleared and no new cycle is started: a step taken in the sleep with the *)
(* flag cleared leaves the sleep, and the top of the loop then leaves the  *)
(* loop instead of starting a cycle.                                       *)
(***************************************************************************)
StoppedLoopWinds ==
    /\ pc = "sleeping" /\ ~running => ENABLED Sleep
    /\ pc = "loop_top" /\ ~running => ~ENABLED StartCycle /\ ENABLED ExitLoop

NoCycleAfterStop ==
    /\ pc # "idle" /\ ~running => ~running'
    /\ cycle_count' # cycle_count => running /\ pc = "loop_top"
    /\ pc = "sleeping" /\ ~running => pc' = "loop_top"
    /\ pc = "loop_top" /\ ~running => pc' = "cleanup"

C27_NoCycleAfterStop ==
    [](StoppedLoopWinds) /\ [][NoCycleAfterStop]_vars

\* the signal arrived in the middle of the sleep, with cycles still to run
C27_Witness ==
    /\ pc = "sleeping"
    /\ ~running
    /\ slept > 0 /\ slept < SleepDuration
    /\ cycle_count < MaxCycles

(***************************************************************************)
(* C28.  A stop signal that arrives during a cycle does not interrupt it:  *)
(* with the run flag cleared the cycle still has its next step, a started  *)
(* protocol goes from step to step until it returns DONE or FAILED, and    *)
(* cleanup is entered only from the top of the loop.                       *)
(***************************************************************************)
ProtocolPcs ==
    {"force_check", "snapshot", "close_read", "close_all", "set_leverage",
     "restore", "reopen"}

CyclePcs ==
    ProtocolPcs \cup RebalanceStagePcs \cup {"get_portfolio", "load_config", "check"}

\* the steps the thread of control can take at each position inside a cycle
CycleStep(at) ==
    CASE at = "get_portfolio" -> ENABLED GetPortfolioState
      [] at = "load_config"   -> ENABLED LoadCycleConfig
      [] at = "check"         -> ENABLED CheckCompliance
      [] at = "decide"        -> ENABLED RebalanceStage
      [] at = "execute"       -> ENABLED BeginExecute
      [] at = "exec_core"     -> ENABLED ExecuteCore
      [] at = "exec_shorts"   -> ENABLED (ExecuteShort \/ ExecuteReturn)
      [] at = "force_check"   -> ENABLED ForceCheck
      [] at = "snapshot"      -> ENABLED SaveSnapshot
      [] at = "close_read"    -> ENABLED CloseRead
      [] at = "close_all"     -> ENABLED (ClosePosition \/ CloseSettle)
      [] at = "set_leverage"  -> ENABLED (UpdateLeverage \/ LeverageSettle)
      [] at = "restore"       -> ENABLED BeginRestore
      [] at = "reopen"        -> ENABLED (OpenPosition \/ RestoreReturn)
      [] OTHER                -> FALSE

StoppedCycleGoesOn == pc \in CyclePcs /\ ~running => CycleStep(pc)

CycleRunsToItsEnd ==
    /\ pc \in ProtocolPcs /\ pc' # pc =>
          \/ pc' \in ProtocolPcs
          \/ pc' = "save_state" /\ fresult' \in {"DONE", "FAILED"}
    /\ pc \in CyclePcs => pc' \in CyclePcs \cup {"save_state"}
    /\ pc' = "cleanup" /\ pc' # pc => pc = "loop_top"

C28_StopDoesNotInterruptCycle ==
    [](StoppedCycleGoesOn) /\ [][CycleRunsToItsEnd]_vars

\* the flag was cleared during a cycle of which the protocol closed and
\* reopened the positions and returned DONE
C28_Witness ==
    /\ ~running
    /\ cycle_count = 1
    /\ pc = "save_state"
    /\ fresult = "DONE"
    /\ Issued("close") /\ Issued("open")

(***************************************************************************)
(* C29.  When every call returns, a cleared run flag leads to the loop     *)
(* being left and cleanup having run, cleanup runs at most once in a run   *)
(* of the program, and it calls save_state.                                *)
(***************************************************************************)
CleanupSavesState == cleanups' # cleanups => cleanups' = 1 /\ saves' = saves + 1

C29_StopLeadsToCleanup ==
    /\ (~running /\ pc # "idle") ~> (pc = "stopped" /\ cleanups = 1)
    /\ [][CleanupSavesState]_vars

\* stopped during the second cycle, after which cleanup ran
C29_Witness ==
    /\ pc = "stopped"
    /\ ~running
    /\ cleanups = 1
    /\ cycle_count = 2
    /\ saves = 3

(***************************************************************************)
(* C30.  Cycles run one after the other and each calls save_state exactly  *)
(* once: while a cycle runs the earlier cycles have been saved and it has  *)
(* not, between cycles every cycle has been saved; the save comes after    *)
(* run_strategy_cycle returned; a cycle starts only from the top of the    *)
(* loop, with no protocol or execution in progress, and a protocol run     *)
(* starts only from the compliance check of the cycle.                     *)
(***************************************************************************)
BetweenCyclesPcs == {"sleep", "sleeping", "loop_top", "cleanup"}

OneSavePerCycle ==
    /\ pc \in CyclePcs \cup {"save_state"} => saves = cycle_count - 1
    /\ pc \in BetweenCyclesPcs => saves = cycle_count
    /\ pc = "stopped" => saves = cycle_count + 1

CyclesInSequence ==
    /\ saves' # saves /\ pc # "cleanup" =>
          /\ pc = "save_state" /\ cycle_ok \in {"ok", "failed"}
          /\ saves' = saves + 1
          /\ pc' \in BetweenCyclesPcs
    /\ cycle_count' # cycle_count =>
          /\ pc = "loop_top" /\ saves = cycle_count
          /\ fresult = "none" /\ calls = <<>> /\ orders = <<>>
    /\ pc' = "force_check" /\ pc # "force_check" =>
          pc = "check" /\ calls = <<>> /\ fresult = "none"

C30_CyclesSequentialOneSaveEach ==
    [](OneSavePerCycle) /\ [][CyclesInSequence]_vars

\* two cycles have run, the first of them failed, and both were saved
C30_Witness ==
    /\ pc = "loop_top"
    /\ cycle_count = 2
    /\ saves = 2
    /\ failed_runs > 0

(***************************************************************************)
(* C31.  The leverage_btc, leverage_shorts and shorts the compliance check *)
(* of a cycle uses are the values the trader loaded at startup from its    *)
(* configuration path, in every cycle of the run.                          *)
(***************************************************************************)
C31_CheckUsesStartupParameters ==
    (component.kind = "config" /\ cycle_count > 0) =>
        TargetParameters(component.read) = TargetParameters(config)

(***************************************************************************)
(* C32.  A cycle is executed only with a configuration that satisfies the  *)
(* load-time constraints: 0 < reserve_percent < 1, ratio_target > 0,       *)
(* 0 < rebalance_threshold < 1, a non-empty list of hedge symbols and      *)
(* ratio_low <= ratio_target <= ratio_high; any other file is fatal at     *)
(* startup.                                                                *)
(***************************************************************************)
LoadTimeConstraints(raw) ==
    /\ 0 < ConfigProperties(raw).reserve_usd_percent
    /\ ConfigProperties(raw).reserve_usd_percent < 100
    /\ ConfigProperties(raw).ratio_tgt > 0
    /\ 0 < ConfigProperties(raw).rebalance_threshold
    /\ ConfigProperties(raw).rebalance_threshold < 100
    /\ ConfigProperties(raw).shorts # <<>>
    /\ raw.ratio_low <= raw.ratio_tgt /\ raw.ratio_tgt <= raw.ratio_high

C32_InvalidConfigurationIsFatal ==
    (component.kind = "load" /\ pc \in {"constructed", "cycled"}) =>
        LoadTimeConstraints(component.raw)

(***************************************************************************)
(* C33.  The lower-level components return a value for every input: a call *)
(* of calculate_rebalance_decision ends with a decision handed back to the *)
(* caller, never with an exception.                                        *)
(***************************************************************************)
C33_DecisionIsReturnedNotRaised ==
    pc = "decided" => decision.status = "returned"

(***************************************************************************)
(* C34.  Positions are closed only after a leverage read that succeeded    *)
(* and in which the gateway reported, for some tracked symbol, a leverage  *)
(* that differs from the required one.  Until the first leverage update    *)
(* the venue's leverages and the positions listed at the close are those   *)
(* the read has seen.                                                      *)
(***************************************************************************)
ReportedDiffering ==
    {s \in open_at_close \cap Tracked(config.shorts) :
        Abs(vlev[s] - RequiredLeverage(s) * 1000) >= ComplianceTolerance}

C34_CloseOnlyAfterReportedDifference ==
    (Issued("close") /\ ~Issued("lev")) =>
        /\ \A i \in Idx : calls[i].op = "check" => calls[i].ok
        /\ ReportedDiffering # {}

(***************************************************************************)
(* C35.  The protocol converges: when a run has ended DONE and no read     *)
(* failed and the venue answered and applied every request, the check of   *)
(* the next cycle finds every tracked symbol compliant.  The run ends the  *)
(* cycle, so the next check reads the venue as the run left it.            *)
(***************************************************************************)
NextCheck ==
    CheckLeverageCompliance(GetCurrentLeverages(TRUE), config.leverage_btc,
                            config.leverage_shorts, config.shorts)

C35_DoneRunLeavesAccountCompliant ==
    (fresult = "DONE" /\ faults = 0) => NonCompliant(NextCheck) = {}

(***************************************************************************)
(* C36.  Rebalancing reaches its target: after execute_rebalance placed    *)
(* orders and returned success, with every read answered and every order   *)
(* filled at the quoted price, the decision computed from the portfolio    *)
(* the venue then holds has should_rebalance false.                        *)
(***************************************************************************)
NextDecision ==
    CalculateRebalanceDecision(
        PortfolioState(TRUE, TRUE, TRUE, TRUE, config.shorts),
        config.ratio_tgt, config.reserve_usd_percent, config.rebalance_threshold)

C36_RebalanceReachesTarget ==
    (/\ exec_result = "ok"
     /\ faults = 0
     /\ orders # <<>>
     /\ \A k \in 1..Len(orders) : orders[k].ok) =>
        /\ NextDecision.status = "returned"
        /\ ~NextDecision.should_rebalance

(***************************************************************************)
(* C37.  The tradable NAV the restore step distributes equals              *)
(* nav * (1 - reserve_percent) with the configured reserve_percent, the    *)
(* amount the decision engine splits into its targets.  The plan           *)
(* distributes margins when it is created from scratch and position values *)
(* when it restores proportions; it distributes the whole amount when it   *)
(* has a core request and a hedge request.                                 *)
(***************************************************************************)
RECURSIVE PlanTotal(_)
PlanTotal(k) ==
    IF k = 0 THEN <<0, 1>>
    ELSE FAdd(PlanTotal(k - 1),
              IF branch = "initial"
              THEN Scale(plan[k].value, 1, RequiredLeverage(plan[k].sym))
              ELSE plan[k].value)

WholePlan ==
    /\ \E k \in 1..Len(plan) : plan[k].sym = "BTC"
    /\ \E k \in 1..Len(plan) : plan[k].sym # "BTC"

C37_RestoreUsesConfiguredReserve ==
    (pc = "restored" /\ WholePlan) =>
        PlanTotal(Len(plan))[1] * 100
            = current_state.nav * (100 - config.reserve_usd_percent)
                * PlanTotal(Len(plan))[2]

(***************************************************************************)
(* C38.  Every value get_prices or get_funding_rates serves from its cache *)
(* was fetched less than the TTL (10 s) before the call.                   *)
(***************************************************************************)
C38_ServedFromCacheIsFresh ==
    (component.kind = "cache" /\ component.served.cached) =>
        \A age \in component.served.ages : age < CacheTtl

(***************************************************************************)
(* C39.  A call that finds the breaker OPEN less than recovery_timeout     *)
(* after the last failure is rejected without invoking the function.  A    *)
(* call that finds it OPEN after the timeout is the one trial call: the    *)
(* function is invoked and the breaker is CLOSED with failure count 0      *)
(* after a success and OPEN after anything else, so no later call finds    *)
(* the breaker HALF_OPEN.                                                  *)
(***************************************************************************)
C39_BreakerGatesCalls ==
    component.kind = "breaker" =>
        LET b == component
        IN  /\ (b.last.before = "OPEN" /\ b.last.elapsed < RecoveryTimeout) =>
                   /\ ~b.last.invoked
                   /\ b.last.outcome = "rejected"
                   /\ b.state = "OPEN"
            /\ (b.last.before = "OPEN" /\ b.last.elapsed >= RecoveryTimeout) =>
                   /\ b.last.invoked
                   /\ IF b.last.outcome = "success"
                      THEN b.state = "CLOSED" /\ b.failure_count = 0
                      ELSE b.state = "OPEN"
            /\ b.last.before # "HALF_OPEN"

(***************************************************************************)
(* C40.  When telegram_chat_id is configured, the handler of a message     *)
(* from any other chat issues no market_close call and starts no trader    *)
(* process.                                                                *)
(***************************************************************************)
C40_OnlyAuthorizedChatChangesState ==
    (/\ component.kind = "telegram"
     /\ component.telegram_chat_id # ""
     /\ component.handled.command # "none"
     /\ component.handled.chat # component.telegram_chat_id) =>
        /\ component.handled.closes = 0
        /\ ~component.handled.launched

====
